---- MODULE Spec2Model ----
(***************************************************************************)
(* Model of the instruction decoder of enterprise_rating.ast_decoder:      *)
(* tokenizer.tokenize, helpers.var_lookup.get_var_desc, the per-type       *)
(* parsers of parser.py, decode_mif.decode_mif and decoder.decode_ins.     *)
(*                                                                         *)
(* Texts are sequences of characters (one-character strings).  An operand  *)
(* name such as "GI_84" and a literal the code prepends such as "Sort: "   *)
(* is carried as a single element: an opaque run of characters that holds  *)
(* no delimiter and no blank.                                              *)
(*                                                                         *)
(* Python values whose type the code confuses are tagged tuples:           *)
(*   <<"None">>, <<"int", i>>, <<"dict", rec>>, <<"InsType", code>>,       *)
(*   <<"entity", dependency_vars>>, <<"pv", inputs>>.                      *)
(* A call either returns or raises: [raised, err, nodes].                  *)
(* Node records carry the keyword fields their constructors are called     *)
(* with in parser.py and decode_mif.py.  The english annotation that the   *)
(* parsers attach through render_node is not part of the node records.     *)
(***************************************************************************)
EXTENDS Integers, Sequences, FiniteSets, TLC

VARIABLES raw_ins, algorithm_seq, program_version, token, node, path,
          current_dependencies, op, result, pc,
          stack, state, now, returned

vars == <<raw_ins, algorithm_seq, program_version, token, node, path,
          current_dependencies, op, result, pc,
          stack, state, now, returned>>

\* a session state no callback has written to
NoState == [key \in {} |-> 0]

\* ------------------------------------------------------------------ bounds
MaxLen == 2
MaxStep == 2
MaxTokenLen == 5
MaxLexLen == 4

\* ------------------------------------------------------- python values
PyNone == <<"None">>
PyInt(i) == <<"int", i>>
PyDict(r) == <<"dict", r>>
IsNone(v) == v[1] = "None"

Ok(ns) == [raised |-> FALSE, err |-> "", nodes |-> ns]
Raise(e) == [raised |-> TRUE, err |-> e, nodes |-> <<>>]

\* ------------------------------------------------------- string helpers
RECURSIVE Flatten(_)
Flatten(ss) == IF ss = <<>> THEN <<>> ELSE Head(ss) \o Flatten(Tail(ss))

RECURSIVE Join(_, _)
Join(ss, sep) ==
    IF ss = <<>> THEN <<>>
    ELSE IF Len(ss) = 1 THEN Head(ss)
    ELSE Head(ss) \o sep \o Join(Tail(ss), sep)

Contains(s, c) == \E i \in 1..Len(s) : s[i] = c

isspace(s) == s # <<>> /\ \A i \in 1..Len(s) : s[i] = " "

RECURSIVE lstrip(_)
lstrip(s) == IF s # <<>> /\ Head(s) = " " THEN lstrip(Tail(s)) ELSE s

RECURSIVE rstrip(_)
rstrip(s) ==
    IF s # <<>> /\ s[Len(s)] = " " THEN rstrip(SubSeq(s, 1, Len(s) - 1)) ELSE s

strip(s) == rstrip(lstrip(s))

\* str.find(c, start) with 1-based positions; 0 stands for Python's -1
find(s, c, start) ==
    IF \E i \in start..Len(s) : s[i] = c
    THEN CHOOSE i \in start..Len(s) : s[i] = c /\ \A j \in start..(i - 1) : s[j] # c
    ELSE 0

\* str.split(c): always at least one part, empty parts kept
RECURSIVE split(_, _)
split(s, c) ==
    LET k == find(s, c, 1)
    IN IF k = 0 THEN <<s>>
       ELSE <<SubSeq(s, 1, k - 1)>> \o split(SubSeq(s, k + 1, Len(s)), c)

startswith(s, c) == s # <<>> /\ Head(s) = c

\* ------------------------------------------------------------ tokenizer
\* the same alternatives with each delimiter listed before the longer ones it
\* begins: the order under which the regular expression would cut '>=' and '!RN'
pattern_shortest_first ==
    << <<"|">>, <<"^">>, <<"+">>, <<"=">>, <<">">>, <<"<">>, <<">", "=">>,
       <<"<", "=">>, <<"!">>, <<"!", "R", "2">>, <<"!", "R", "N">>,
       <<"!", "R", "S">>, <<"~">>, <<"{">>, <<"}">>, <<"[">>, <<"]">> >>

\* the alternatives of the regular expression, in the order it lists them
pattern ==
    << <<"|">>, <<"^">>, <<"+">>, <<">", "=">>, <<"<", "=">>, <<"=">>, <<">">>,
       <<"<">>, <<"!", "R", "2">>, <<"!", "R", "N">>, <<"!", "R", "S">>, <<"!">>,
       <<"~">>, <<"{">>, <<"}">>, <<"[">>, <<"]">> >>

OperatorSet == {pattern[k] : k \in 1..Len(pattern)}

MatchesAt(raw, i, d) ==
    /\ i + Len(d) - 1 <= Len(raw)
    /\ SubSeq(raw, i, i + Len(d) - 1) = d

\* the first alternative that matches at position i, 0 when none does
MatchAt(raw, i) ==
    IF \E k \in 1..Len(pattern) : MatchesAt(raw, i, pattern[k])
    THEN CHOOSE k \in 1..Len(pattern) :
            /\ MatchesAt(raw, i, pattern[k])
            /\ \A j \in 1..(k - 1) : ~MatchesAt(raw, i, pattern[j])
    ELSE 0

\* re.split(pattern, raw) with a capturing group: text, delimiter, text, ...
RECURSIVE re_split(_, _, _)
re_split(raw, i, cur) ==
    IF i > Len(raw) THEN <<cur>>
    ELSE LET k == MatchAt(raw, i)
         IN IF k = 0 THEN re_split(raw, i + 1, Append(cur, raw[i]))
            ELSE <<cur, pattern[k]>> \o re_split(raw, i + Len(pattern[k]), <<>>)

Token(type, value) == [type |-> type, value |-> value]

\* a lexer that trims the blanks around every part it keeps
tokenize_trimmed(raw) ==
    IF raw = <<>> THEN <<>>
    ELSE LET all == re_split(raw, 1, <<>>)
             parts == SelectSeq(all, LAMBDA p : p # <<>> /\ ~isspace(p))
         IN [k \in 1..Len(parts) |->
                IF parts[k] \in OperatorSet
                THEN Token("OP", parts[k])
                ELSE Token("WORD", strip(parts[k]))]

tokenize(raw) ==
    IF raw = <<>> THEN <<>>
    ELSE LET all == re_split(raw, 1, <<>>)
             parts == SelectSeq(all, LAMBDA p : p # <<>> /\ ~isspace(p))
         IN [k \in 1..Len(parts) |->
                IF parts[k] \in OperatorSet
                THEN Token("OP", parts[k])
                ELSE Token("WORD", parts[k])]

TokenValues(tokens) == [k \in 1..Len(tokens) |-> tokens[k].value]

\* -------------------------------------------------------------- InsType
\* the values of the InsType enumeration
InsTypeValues ==
    {-1} \cup (0..44) \cup (47..71) \cup (80..90) \cup (93..95) \cup (97..102)
         \cup (106..108) \cup (110..151) \cup {193, 194, 200, 254}

UNKNOWN == -1
ARITHMETIC == 0
IF_ == 1
CALL == 2
SORT == 3
MASK == 4
SET_STRING == 5
EMPTY == 6
IF_DATE == 56
DATE_DIFF_DAYS == 57
DATE_DIFF_MONTHS == 58
DATE_DIFF_YEARS == 59
STRING_ADDITION == 86
RANK_ACROSS_CATEGORY == 94
IS_DATE == 95
IS_NUMERIC == 98
IS_ALPHA == 99
DATE_ADDITION == 126
POWER == 127
LOG == 128
LOG10 == 129
EXP == 130
SQRT == 133
COS == 138
COSH == 139
SIN == 142
SINH == 143
TAN == 146
TANH == 147
RANK_ACROSS_CATEGORY_ALL_AVAILABLE_ALT == 193
RANK_ACROSS_CATEGORY_ALT == 194
DATA_SOURCE == 200
SET_UNDERWRITING_TO_FAIL == 254

MULTI_IF_SYMBOL == "#"

InsTypeMember(code) == <<"InsType", code>>
IsInsType(v) == v[1] = "InsType"

\* int(x): x is None, an int, or a string that is not a number
to_int(x) ==
    IF x[1] = "int" THEN [raised |-> FALSE, err |-> "", value |-> x[2]]
    ELSE IF x[1] = "None" THEN [raised |-> TRUE, err |-> "TypeError", value |-> 0]
    ELSE [raised |-> TRUE, err |-> "ValueError", value |-> 0]

\* InsType(int(t))
InsType(t) ==
    LET i == to_int(t)
    IN IF i.raised THEN [raised |-> TRUE, err |-> i.err, value |-> PyNone]
       ELSE IF i.value \in InsTypeValues
            THEN [raised |-> FALSE, err |-> "", value |-> InsTypeMember(i.value)]
            ELSE [raised |-> TRUE, err |-> "ValueError", value |-> PyNone]

\* ---------------------------------------------------------- var lookup
\* getattr(parent_entity, 'dependency_vars', [])
dependency_vars(parent_entity) ==
    IF parent_entity[1] = "entity" THEN parent_entity[2] ELSE <<>>

get_var_desc(var_key, parent_entity, pv) ==
    LET deps == dependency_vars(parent_entity)
        hit(d) == d.index = var_key \/ d.custom_id = var_key
    IN IF parent_entity[1] = "entity_none"
       THEN \* dependency_vars is None: 'for dep in None'
            [raised |-> TRUE, err |-> "TypeError", value |-> <<>>]
       ELSE IF \E k \in 1..Len(deps) : hit(deps[k])
       THEN LET k == CHOOSE k \in 1..Len(deps) :
                        hit(deps[k]) /\ \A j \in 1..(k - 1) : ~hit(deps[j])
            IN [raised |-> FALSE, err |-> "", value |-> deps[k].description]
       ELSE IF pv[1] # "pv"
            THEN [raised |-> TRUE, err |-> "AttributeError", value |-> <<>>]
            ELSE LET inputs == pv[2]
                 IN IF \E k \in 1..Len(inputs) : inputs[k].key = var_key
                    THEN LET k == CHOOSE k \in 1..Len(inputs) :
                                    /\ inputs[k].key = var_key
                                    /\ \A j \in 1..(k - 1) : inputs[j].key # var_key
                         IN [raised |-> FALSE, err |-> "", value |-> inputs[k].description]
                    ELSE [raised |-> FALSE, err |-> "", value |-> var_key]

\* get_var_desc over a list of keys, stopping at the first failure
RECURSIVE get_var_descs(_, _, _)
get_var_descs(keys, parent_entity, pv) ==
    IF keys = <<>> THEN [raised |-> FALSE, err |-> "", value |-> <<>>]
    ELSE LET d == get_var_desc(Head(keys), parent_entity, pv)
         IN IF d.raised THEN d
            ELSE LET rest == get_var_descs(Tail(keys), parent_entity, pv)
                 IN IF rest.raised THEN rest
                    ELSE [raised |-> FALSE, err |-> "", value |-> <<d.value>> \o rest.value]

\* the helper parse_string_addition falls back to for an unresolved target
get_target_var_desc(target_raw, parent) == target_raw

\* ----------------------------------------------------- variable grammar
Digits == {"0", "1", "2", "3", "4", "5", "6", "7", "8", "9"}

\* str.isdigit() on the texts the model draws (ASCII only)
isdigit(s) == s # <<>> /\ \A i \in 1..Len(s) : s[i] \in Digits

DigitValue(c) ==
    CASE c = "0" -> 0 [] c = "1" -> 1 [] c = "2" -> 2 [] c = "3" -> 3 [] c = "4" -> 4
      [] c = "5" -> 5 [] c = "6" -> 6 [] c = "7" -> 7 [] c = "8" -> 8 [] c = "9" -> 9

\* int(s) of a text of digits
RECURSIVE int(_)
int(s) ==
    IF s = <<>> THEN 0
    ELSE 10 * int(SubSeq(s, 1, Len(s) - 1)) + DigitValue(s[Len(s)])

Value(v) == [raised |-> FALSE, err |-> "", value |-> v]
RaiseValue(e) == [raised |-> TRUE, err |-> e, value |-> PyNone]

\* split_var_token(token): (prefix, var_id, sub_id) or ValueError
split_var_token(tok) ==
    LET stripped == IF startswith(tok, "~") \/ startswith(tok, "D")
                    THEN Tail(tok) ELSE tok
        prefix == SubSeq(stripped, 1, 2)
        rest == SubSeq(stripped, 4, Len(stripped))
        dot == find(rest, ".", 1)
        main_id_str == SubSeq(rest, 1, dot - 1)
        sub_id_str == SubSeq(rest, dot + 1, Len(rest))
    IN IF ~Contains(stripped, "_") \/ Len(stripped) < 3
       THEN RaiseValue("ValueError")
       ELSE IF dot > 0
            THEN IF ~isdigit(main_id_str) \/ ~isdigit(sub_id_str)
                 THEN RaiseValue("ValueError")
                 ELSE Value(<<prefix, PyInt(int(main_id_str)), PyInt(int(sub_id_str))>>)
            ELSE IF ~isdigit(rest)
                 THEN RaiseValue("ValueError")
                 ELSE Value(<<prefix, PyInt(int(rest)), PyNone>>)

\* ---------------------------------------------------------------- nodes
Unset == "<unset>"

RawNode(step, ins_type, template_id, raw, value) ==
    [node |-> "RawNode", step |-> step, ins_type |-> ins_type,
     template_id |-> template_id, raw |-> raw, value |-> value]

CompareNode(step, ins_type, template_id, left, operator, right) ==
    [node |-> "CompareNode", step |-> step, ins_type |-> ins_type,
     template_id |-> template_id, left |-> left, operator |-> operator,
     right |-> right]

TypeCheckNode(step, ins_type, template_id, left, check_type) ==
    [node |-> "TypeCheckNode", step |-> step, ins_type |-> ins_type,
     template_id |-> template_id, left |-> left, check_type |-> check_type]

JumpNode(step, ins_type, target) ==
    [node |-> "JumpNode", step |-> step, ins_type |-> ins_type,
     template_id |-> "JUMP", target |-> target]

IfNode(step, ins_type, template_id, condition, true_branch, false_branch) ==
    [node |-> "IfNode", step |-> step, ins_type |-> ins_type,
     template_id |-> template_id, condition |-> condition,
     true_branch |-> true_branch, false_branch |-> false_branch]

ArithmeticNode(step, ins_type, template_id, left, operator, right, round_spec) ==
    [node |-> "ArithmeticNode", step |-> step, ins_type |-> ins_type,
     template_id |-> template_id, left |-> left, operator |-> operator,
     right |-> right, round_spec |-> round_spec]

FunctionNode(step, ins_type, template_id, name, args, round_spec) ==
    [node |-> "FunctionNode", step |-> step, ins_type |-> ins_type,
     template_id |-> template_id, name |-> name, args |-> args,
     round_spec |-> round_spec]

AssignmentNode(step, ins_type, template_id, var, expr, target) ==
    [node |-> "AssignmentNode", step |-> step, ins_type |-> ins_type,
     template_id |-> template_id, var |-> var, expr |-> expr,
     target |-> target, next_true |-> PyNone, next_false |-> PyNone]

\* the value of the variable node while nothing is rendered
NoNode == RawNode(PyInt(1), PyNone, Unset, <<>>, <<>>)

\* a round_spec is None or a text
NoRound == PyNone
Round(text) == <<"str", text>>

\* -------------------------------------------------------------- parsers
\* raw_ins is the record [n, t, ins, ins_tar, seq_t, seq_f]

\* int(seq) if seq is not None else None
next_step(seq) ==
    IF IsNone(seq) THEN [raised |-> FALSE, err |-> "", value |-> PyNone]
    ELSE LET i == to_int(seq)
         IN [raised |-> i.raised, err |-> i.err, value |-> PyInt(i.value)]

\* the branch parse_if and parse_if_date build from a next-step value
jump_branch(step, ins_type, nxt) ==
    IF IsNone(nxt) THEN <<>> ELSE <<JumpNode(step, ins_type, nxt[2])>>

\* seq is not None and int(seq) > 0, as parse_type_check tests it
positive_step(seq) ==
    IF IsNone(seq) THEN [raised |-> FALSE, err |-> "", value |-> FALSE]
    ELSE LET i == to_int(seq)
         IN [raised |-> i.raised, err |-> i.err, value |-> i.value > 0]

friendly_map(code) ==
    CASE code = POWER -> <<"Power">>
      [] code = LOG -> <<"Natural Log">>
      [] code = LOG10 -> <<"Log Base 10">>
      [] code = EXP -> <<"Exponential">>
      [] code = SQRT -> <<"Square Root">>
      [] code = COS -> <<"Cosine">>
      [] code = SIN -> <<"Sine">>
      [] code = TAN -> <<"Tangent">>
      [] code = COSH -> <<"Hyperbolic Cosine">>
      [] code = SINH -> <<"Hyperbolic Sine">>
      [] code = TANH -> <<"Hyperbolic Tangent">>
      [] OTHER -> <<"InsType.name.title()">>

\* ins_type.name.replace("_", " ").title()
action_name(code) ==
    CASE code = RANK_ACROSS_CATEGORY -> <<"Rank Across Category">>
      [] code = RANK_ACROSS_CATEGORY_ALL_AVAILABLE_ALT ->
            <<"Rank Across Category All Available Alt">>
      [] code = RANK_ACROSS_CATEGORY_ALT -> <<"Rank Across Category Alt">>
      [] OTHER -> <<"InsType.name.title()">>

check_map(code) ==
    CASE code = IS_DATE -> "date"
      [] code = IS_NUMERIC -> "numeric"
      [] code = IS_ALPHA -> "alpha"
      [] OTHER -> "InsType.name.lower()"

HasSub(s, sub) ==
    \E i \in 1..Len(s) : MatchesAt(s, i, sub)

\* tokens[-1].value.startswith("!"): the marker and the remaining tokens
round_split(tokens) ==
    IF tokens # <<>> /\ startswith(tokens[Len(tokens)].value, "!")
    THEN [round_spec |-> Round(Tail(tokens[Len(tokens)].value)),
          tokens |-> SubSeq(tokens, 1, Len(tokens) - 1)]
    ELSE [round_spec |-> NoRound, tokens |-> tokens]

parse_rank_flag(tokens, step, ins_type, alg, pv, template_id) ==
    IF ~IsInsType(ins_type) THEN Raise("AttributeError")
    ELSE
    LET name == action_name(ins_type[2])
        expand(t) ==
            IF /\ ~IsNone(pv) /\ ~IsNone(alg) /\ t.type = "WORD"
               /\ (HasSub(t.value, <<"G", "I", "_">>) \/ HasSub(t.value, <<"G", "C", "_">>))
            THEN get_var_desc(t.value, alg, pv)
            ELSE [raised |-> FALSE, err |-> "", value |-> t.value]
        ex == [k \in 1..Len(tokens) |-> expand(tokens[k])]
        action_text ==
            IF tokens = <<>> THEN name
            ELSE name \o <<": ">> \o Join([k \in 1..Len(tokens) |-> ex[k].value], <<", ">>)
        desc == get_var_desc(action_text, alg, pv)
    IN IF \E k \in 1..Len(tokens) : ex[k].raised THEN Raise("AttributeError")
       ELSE IF desc.raised THEN Raise(desc.err)
       ELSE Ok(<<RawNode(step, ins_type, template_id, action_text, desc.value)>>)

parse_sort(tokens, step, ins_type, alg, pv, template_id) ==
    Ok(<<RawNode(step, ins_type, template_id, <<>>,
                 <<"Sort: ">> \o Join(TokenValues(tokens), <<" ">>))>>)

parse_mask(tokens, step, ins_type, alg, pv, template_id) ==
    Ok(<<RawNode(step, ins_type, template_id, <<>>,
                 <<"Mask: ">> \o Join(TokenValues(tokens), <<" ">>))>>)

parse_empty(tokens, step, ins_type, alg, pv, template_id) == Ok(<<>>)

parse_set_string(tokens, step, ins_type, alg, pv, template_id) ==
    IF Len(tokens) >= 2
    THEN Ok(<<AssignmentNode(step, ins_type, template_id, tokens[1].value,
                RawNode(step, ins_type, template_id, <<>>, tokens[2].value),
                PyNone)>>)
    ELSE Ok(<<RawNode(step, ins_type, template_id, <<>>,
                      Join(TokenValues(tokens), <<" ">>))>>)

parse_string_addition(tokens, r, parent, alg, pv, template_id) ==
    LET step == PyInt(r.n)
        it == InsType(r.t)
        descs == get_var_descs(TokenValues(tokens), alg, pv)
        args == [k \in 1..Len(tokens) |->
                    RawNode(step, it.value, Unset, tokens[k].value, descs.value[k])]
        concat == FunctionNode(step, it.value, Unset, <<"StringAddition">>, args, Unset)
        target_raw == r.ins_tar
        target_val == get_var_desc(target_raw, alg, pv)
        target == IF target_raw = target_val.value
                  THEN get_target_var_desc(target_raw, parent)
                  ELSE target_val.value
    IN IF it.raised THEN Raise(it.err)
       ELSE IF descs.raised THEN Raise(descs.err)
       ELSE IF target_val.raised THEN Raise(target_val.err)
       ELSE Ok(<<AssignmentNode(step, it.value, template_id, target_raw, concat,
                                <<"str", target>>)>>)

parse_date_diff(tokens, step, ins_type, alg, pv, template_id) ==
    LET left_val == IF Len(tokens) >= 1 THEN tokens[1].value ELSE <<>>
        right_val == IF Len(tokens) >= 2 THEN tokens[2].value ELSE <<>>
        left_desc == get_var_desc(left_val, PyNone, PyNone)
        right_desc == get_var_desc(right_val, PyNone, PyNone)
    IN IF left_desc.raised THEN Raise(left_desc.err)
       ELSE IF right_desc.raised THEN Raise(right_desc.err)
       ELSE Ok(<<FunctionNode(step, ins_type, template_id, <<"DateDifference">>,
                    <<RawNode(step, ins_type, Unset, left_val, left_desc.value),
                      RawNode(step, ins_type, Unset, right_val, right_desc.value)>>,
                    Unset)>>)

parse_date_addition(tokens, step, ins_type, alg, pv, template_id) ==
    LET date_val == IF Len(tokens) >= 1 THEN tokens[1].value ELSE <<>>
        offset_val == IF Len(tokens) >= 2 THEN tokens[2].value ELSE <<>>
    IN Ok(<<FunctionNode(step, ins_type, template_id, <<"DateAddition">>,
                <<RawNode(step, ins_type, template_id, date_val, date_val),
                  RawNode(step, ins_type, template_id, offset_val, offset_val)>>,
                Unset)>>)

parse_if_date(tokens, r, alg, pv, template_id) ==
    LET step == PyInt(r.n)
        it == InsType(r.t)
        left_val == IF Len(tokens) > 0 THEN tokens[1].value ELSE <<>>
        op_val == IF Len(tokens) > 1 THEN tokens[2].value ELSE <<>>
        right_val == IF Len(tokens) > 2 THEN tokens[3].value ELSE <<>>
        left_desc == get_var_desc(left_val, alg, pv)
        right_desc == get_var_desc(left_val, alg, pv)
        next_true == next_step(r.seq_t)
        next_false == next_step(r.seq_f)
        condition == CompareNode(step, it.value, template_id,
                        RawNode(step, it.value, template_id, left_val, left_desc.value),
                        op_val,
                        RawNode(step, it.value, template_id, right_val, right_desc.value))
    IN IF it.raised THEN Raise(it.err)
       ELSE IF left_desc.raised THEN Raise(left_desc.err)
       ELSE IF right_desc.raised THEN Raise(right_desc.err)
       ELSE IF next_true.raised THEN Raise(next_true.err)
       ELSE IF next_false.raised THEN Raise(next_false.err)
       ELSE Ok(<<IfNode(step, it.value, template_id, condition,
                        jump_branch(step, it.value, next_true.value),
                        jump_branch(step, it.value, next_false.value))>>)

parse_if(tokens, r, alg, pv, template_id) ==
    LET step == PyInt(r.n)
        it == InsType(r.t)
        parts == split(r.ins, "|")
        left_val == IF Len(parts) >= 4 THEN parts[2]
                    ELSE IF Len(parts) = 3 THEN parts[1] ELSE r.ins
        operator == IF Len(parts) >= 4 THEN parts[3]
                    ELSE IF Len(parts) = 3 THEN parts[2] ELSE <<>>
        right_val == IF Len(parts) >= 4 THEN parts[4]
                     ELSE IF Len(parts) = 3 THEN parts[3] ELSE <<>>
        desc_left == get_var_desc(left_val, alg, pv)
        desc_right == get_var_desc(right_val, alg, pv)
        next_true == next_step(r.seq_t)
        next_false == next_step(r.seq_f)
        condition == CompareNode(step, it.value, Unset,
                        RawNode(step, it.value, template_id, left_val, desc_left.value),
                        operator,
                        RawNode(step, it.value, template_id, right_val, desc_right.value))
    IN IF it.raised THEN Raise(it.err)
       ELSE IF desc_left.raised THEN Raise(desc_left.err)
       ELSE IF desc_right.raised THEN Raise(desc_right.err)
       ELSE IF next_true.raised THEN Raise(next_true.err)
       ELSE IF next_false.raised THEN Raise(next_false.err)
       ELSE Ok(<<IfNode(step, it.value, template_id, condition,
                        jump_branch(step, it.value, next_true.value),
                        jump_branch(step, it.value, next_false.value))>>)

parse_arithmetic(tokens, step, ins_type, alg, pv, template_id) ==
    LET rs == round_split(tokens)
        toks == rs.tokens
        left_val == toks[1].value
        operator == toks[2].value
        right_val == toks[3].value
        left_desc == get_var_desc(left_val, alg, pv)
        right_desc == get_var_desc(right_val, alg, pv)
    IN IF Len(toks) >= 3
       THEN IF left_desc.raised THEN Raise(left_desc.err)
            ELSE IF right_desc.raised THEN Raise(right_desc.err)
            ELSE Ok(<<ArithmeticNode(step, ins_type, template_id,
                        RawNode(step, ins_type, template_id, left_val, left_desc.value),
                        operator,
                        RawNode(step, ins_type, template_id, right_val, right_desc.value),
                        rs.round_spec)>>)
       ELSE Ok(<<RawNode(step, ins_type, template_id, <<>>,
                         Join(TokenValues(toks), <<" ">>))>>)

parse_function(tokens, step, ins_type, alg, pv, template_id) ==
    LET rs == round_split(tokens)
        toks == rs.tokens
        args == [k \in 1..Len(toks) |->
                    RawNode(step, ins_type, template_id, toks[k].value, toks[k].value)]
    IN IF ~IsInsType(ins_type) THEN Raise("AttributeError")
       ELSE Ok(<<FunctionNode(step, ins_type, template_id, friendly_map(ins_type[2]),
                              args, rs.round_spec)>>)

parse_call(tokens, r, alg, pv, template_id) ==
    LET step == PyInt(r.n)
        it == InsType(r.t)
        call_text == <<"Call: ">> \o r.ins
    IN IF it.raised THEN Raise(it.err)
       ELSE Ok(<<RawNode(step, it.value, template_id, call_text, call_text)>>)

parse_data_source(tokens, r, alg, pv, template_id) ==
    LET step == PyInt(r.n)
        it == InsType(r.t)
    IN IF it.raised THEN Raise(it.err)
       ELSE Ok(<<FunctionNode(step, it.value, Unset, <<"DataSource">>,
                    [k \in 1..Len(tokens) |->
                        RawNode(step, it.value, template_id, tokens[k].value,
                                tokens[k].value)],
                    Unset)>>)

parse_type_check(tokens, r, alg, pv, template_id) ==
    LET step == PyInt(r.n)
        it == InsType(r.t)
        \* the keyword step_type=ins_type every node of this parser is given
        step_type(nd) == nd @@ [step_type |-> it.value]
        left_raw == IF tokens # <<>> /\ startswith(tokens[1].value, "~") /\ Len(tokens) > 1
                    THEN tokens[2].value
                    ELSE IF tokens # <<>> THEN tokens[1].value ELSE <<>>
        left_desc == get_var_desc(left_raw, alg, pv)
        left_node == step_type(RawNode(step, it.value, template_id, left_raw,
                                       left_desc.value))
        cond_node == step_type(TypeCheckNode(step, it.value, template_id, left_node,
                                             check_map(it.value[2])))
        pos_t == positive_step(r.seq_t)
        pos_f == positive_step(r.seq_f)
        true_branch == IF pos_t.value
                       THEN <<step_type(JumpNode(step, it.value, to_int(r.seq_t).value))>>
                       ELSE <<>>
        false_branch == IF pos_f.value
                        THEN <<step_type(JumpNode(step, it.value, to_int(r.seq_f).value))>>
                        ELSE <<>>
    IN IF it.raised THEN Raise(it.err)
       ELSE IF left_desc.raised THEN Raise(left_desc.err)
       ELSE IF pos_t.raised THEN Raise(pos_t.err)
       ELSE IF pos_f.raised THEN Raise(pos_f.err)
       ELSE Ok(<<step_type(IfNode(step, it.value, "TYPE_CHECK", cond_node,
                                  true_branch, false_branch))>>)

\* ------------------------------------------------- decode_mif / parse
RECURSIVE decode_ins(_, _, _)

\* the rest of multi_body as one fragment, whatever joiners it holds
fragments_unsplit(multi_body, i) ==
    IF i > Len(multi_body) THEN <<>> ELSE <<SubSeq(multi_body, i, Len(multi_body))>>

\* the fragments step 3 of decode_mif cuts multi_body into, from position i
RECURSIVE fragments(_, _)
fragments(multi_body, i) ==
    IF i > Len(multi_body) THEN <<>>
    ELSE LET idx_caret == find(multi_body, "^", i)
             idx_plus == find(multi_body, "+", i)
             split_idx == IF idx_caret = 0 THEN idx_plus
                          ELSE IF idx_plus = 0 THEN idx_caret
                          ELSE IF idx_caret < idx_plus THEN idx_caret ELSE idx_plus
         IN IF split_idx = 0 THEN <<SubSeq(multi_body, i, Len(multi_body))>>
            ELSE <<SubSeq(multi_body, i, split_idx - 1)>>
                    \o fragments(multi_body, split_idx + 1)

\* the RawNode decode_mif stores when decode_ins raised
error_node(r, template_id, err) ==
    LET tv == to_int(r.t)
    IN RawNode(PyInt(r.n), IF tv.raised THEN PyNone ELSE PyInt(tv.value),
               template_id, <<>>, <<"ERROR: ", err>>)

\* one try/except block of decode_mif: decode a copy of the record
decode_part(r, text, alg, pv, template_id) ==
    LET d == decode_ins([r EXCEPT !.ins = text], alg, pv)
    IN IF d.raised THEN <<error_node(r, template_id, d.err)>> ELSE d.nodes

decode_mif(r, alg, pv, template_id) ==
    LET ins_str == r.ins
        idx_hash == find(ins_str, MULTI_IF_SYMBOL, 1)
        base_part == IF idx_hash > 0 THEN SubSeq(ins_str, 1, idx_hash - 1) ELSE <<>>
        multi_body == IF idx_hash > 0 THEN SubSeq(ins_str, idx_hash + 1, Len(ins_str))
                      ELSE ins_str
        trimmed_base == strip(base_part)
        base_nodes == IF trimmed_base # <<>>
                      THEN decode_part(r, trimmed_base, alg, pv, template_id)
                      ELSE <<>>
        frs == fragments(multi_body, 1)
    IN Ok(base_nodes \o
          Flatten([k \in 1..Len(frs) |-> decode_part(r, strip(frs[k]), alg, pv, Unset)]))

\* the keys of the dispatch_map of parse
ParseDispatch ==
    {ARITHMETIC, IF_, IF_DATE, CALL, SORT, MASK, SET_STRING, EMPTY, STRING_ADDITION,
     DATE_DIFF_DAYS, DATE_DIFF_MONTHS, DATE_DIFF_YEARS, DATE_ADDITION,
     POWER, LOG, LOG10, EXP, SQRT, COS, SIN, TAN, COSH, SINH, TANH, DATA_SOURCE,
     RANK_ACROSS_CATEGORY, RANK_ACROSS_CATEGORY_ALL_AVAILABLE_ALT,
     RANK_ACROSS_CATEGORY_ALT, SET_UNDERWRITING_TO_FAIL,
     IS_DATE, IS_NUMERIC, IS_ALPHA}

FunctionTypes == {POWER, LOG, LOG10, EXP, SQRT, COS, SIN, TAN, COSH, SINH, TANH}

\* the template id the dispatch_map of parse pairs with a type
ParseTemplate(code) ==
    CASE code \in {ARITHMETIC, SET_STRING} -> "ASSIGNMENT"
      [] code \in {IF_, IF_DATE} -> "IF_COMPARE"
      [] code \in {CALL, SORT} \cup FunctionTypes -> "FUNCTION_CALL"
      [] code = MASK -> "MASK"
      [] code = EMPTY -> "EMPTY"
      [] code = STRING_ADDITION -> "STRING_CONCAT"
      [] code \in {DATE_DIFF_DAYS, DATE_DIFF_MONTHS, DATE_DIFF_YEARS, DATE_ADDITION} ->
            "DATE_DIFF"
      [] code = DATA_SOURCE -> "QUERY_DATA_SOURCE"
      [] code = RANK_ACROSS_CATEGORY -> "RANK_FLAG"
      [] code = RANK_ACROSS_CATEGORY_ALL_AVAILABLE_ALT ->
            "RANK_ACROSS_CATEGORY_ALL_AVAILABLE_ALT"
      [] code = RANK_ACROSS_CATEGORY_ALT -> "RANK_ACROSS_CATEGORY_ALT"
      [] code = SET_UNDERWRITING_TO_FAIL -> "SET_UNDERWRITING_TO_FAIL"
      [] code = IS_DATE -> "IS_DATE"
      [] code = IS_NUMERIC -> "IS_NUMERIC"
      [] code = IS_ALPHA -> "IS_ALPHA"

parse(tokens, r, alg, pv, dep_item) ==
    LET it == InsType(r.t)
        ins_type == IF it.raised THEN InsTypeMember(UNKNOWN) ELSE it.value
        code == ins_type[2]
        step == PyInt(r.n)
        ins_str == r.ins
        template_id == ParseTemplate(code)
        desc == get_var_desc(ins_str, alg, pv)
    IN IF code \in ParseDispatch
       THEN IF \/ Contains(ins_str, MULTI_IF_SYMBOL)
               \/ Contains(ins_str, "^")
               \/ Contains(ins_str, "+")
            THEN decode_mif(r, alg, pv, template_id)
            ELSE CASE code = IF_ -> parse_if(tokens, r, alg, pv, template_id)
                   [] code = STRING_ADDITION ->
                        parse_string_addition(tokens, r, dep_item, alg, pv, template_id)
                   [] code = IF_DATE -> parse_if_date(tokens, r, alg, pv, template_id)
                   [] code = DATA_SOURCE ->
                        parse_data_source(tokens, r, alg, pv, template_id)
                   [] code \in {IS_DATE, IS_NUMERIC, IS_ALPHA} ->
                        parse_type_check(tokens, r, alg, pv, template_id)
                   \* parse_call takes five parameters and is handed six
                   [] code = CALL -> Raise("TypeError")
                   [] code = ARITHMETIC ->
                        parse_arithmetic(tokens, step, ins_type, alg, pv, template_id)
                   [] code = SORT ->
                        parse_sort(tokens, step, ins_type, alg, pv, template_id)
                   [] code = MASK ->
                        parse_mask(tokens, step, ins_type, alg, pv, template_id)
                   [] code = SET_STRING ->
                        parse_set_string(tokens, step, ins_type, alg, pv, template_id)
                   [] code \in {EMPTY, SET_UNDERWRITING_TO_FAIL} ->
                        parse_empty(tokens, step, ins_type, alg, pv, template_id)
                   [] code \in {DATE_DIFF_DAYS, DATE_DIFF_MONTHS, DATE_DIFF_YEARS} ->
                        parse_date_diff(tokens, step, ins_type, alg, pv, template_id)
                   [] code = DATE_ADDITION ->
                        parse_date_addition(tokens, step, ins_type, alg, pv, template_id)
                   [] code \in FunctionTypes ->
                        parse_function(tokens, step, ins_type, alg, pv, template_id)
                   [] OTHER ->
                        parse_rank_flag(tokens, step, ins_type, alg, pv, template_id)
       ELSE IF desc.raised THEN Raise(desc.err)
            ELSE Ok(<<RawNode(step, ins_type, Unset, ins_str, desc.value)>>)

\* -------------------------------------------------------------- renderer
\* the template ids templates.yml defines: the ids the parsers hand out
TEMPLATES ==
    {"ASSIGNMENT", "IF_COMPARE", "FUNCTION_CALL", "MASK", "EMPTY", "STRING_CONCAT",
     "DATE_DIFF", "QUERY_DATA_SOURCE", "RANK_FLAG", "JUMP", "TYPE_CHECK",
     "IS_DATE", "IS_NUMERIC", "IS_ALPHA"}

\* tpl.render(**ctx): a text fixed by the template and the context values
tpl_render(template_id, ctx) == <<"{{", template_id, "}}">> \o Join(ctx, <<", ">>)

hasattr(nd, name) == name \in DOMAIN nd /\ (name = "template_id" => nd[name] # Unset)

\* x or y for texts and None
falsy(x) == x = PyNone \/ x = <<>>

\* what render_node returns, and the node as the call leaves it
Rendered(nd, text) == [value |-> text, node |-> nd]

\* the except clause: node.english = str(e); return it
Caught(nd, err) == [value |-> err, node |-> [english |-> err] @@ nd]

\* getattr(node, 'english', default) or fallback
english_or(nd, default, fallback) ==
    LET e == IF hasattr(nd, "english") THEN nd.english ELSE default
    IN IF falsy(e) THEN fallback ELSE e

\* value or "" for a round_spec
round_text(nd) ==
    IF hasattr(nd, "round_spec") /\ nd.round_spec # Unset /\ nd.round_spec # PyNone
    THEN nd.round_spec[2] ELSE <<>>

\* getattr(cond, 'cond_op', '') or ''
cond_op_text(cond) ==
    IF hasattr(cond, "cond_op") /\ ~falsy(cond.cond_op) THEN cond.cond_op ELSE <<>>

render_node(nd) ==
    IF ~hasattr(nd, "template_id")
    THEN Caught(nd, <<"'", nd.node, "' object has no attribute 'template_id'">>)
    ELSE IF nd.template_id \notin TEMPLATES
    THEN Rendered(nd, english_or(nd, <<"No Template found: ", nd.template_id>>,
                                 <<"What?">>))
    ELSE CASE nd.node = "JumpNode" ->
                \* the target is rendered as a number: one opaque text here
                Rendered(nd, tpl_render(nd.template_id, <<<<"str(target)">>>>))
           [] nd.node = "IfNode" ->
                IF nd.condition.node = "CompareNode"
                THEN Rendered(nd, tpl_render(nd.template_id,
                        <<nd.condition.left.raw, nd.condition.operator,
                          nd.condition.right.raw, cond_op_text(nd.condition)>>))
                ELSE IF nd.condition.node = "MultiConditionNode"
                THEN \* the list of conditions is rendered by the template: one
                     \* opaque text here
                     Rendered(nd, tpl_render(nd.template_id,
                        <<<<"str(conditions)">>, nd.condition.joiner>>))
                ELSE Rendered(nd, english_or(nd, <<>>, <<>>))
           [] nd.node = "ArithmeticNode" ->
                Rendered(nd, tpl_render(nd.template_id,
                        <<nd.left.raw, nd.operator, nd.right.raw, round_text(nd)>>))
           [] nd.node = "FunctionNode" ->
                Rendered(nd, tpl_render(nd.template_id,
                        <<nd.name,
                          Join([k \in 1..Len(nd.args) |-> nd.args[k].raw], <<", ">>),
                          round_text(nd)>>))
           [] nd.node = "AssignmentNode" ->
                IF hasattr(nd.expr, "args")
                THEN Rendered(nd, tpl_render(nd.template_id,
                        <<<<"Arithmetic">>,
                          Join([k \in 1..Len(nd.expr.args) |-> nd.expr.args[k].raw],
                               <<", ">>),
                          round_text(nd)>>))
                ELSE Caught(nd, <<"'", nd.expr.node, "' object has no attribute 'args'">>)
           [] OTHER -> Rendered(nd, english_or(nd, <<>>, <<>>))

\* ------------------------------------------------------------ decode_ins
\* the keys of the dispatch_map of decode_ins
DecodeDispatch ==
    {ARITHMETIC, IF_, CALL, SORT, MASK, SET_STRING, EMPTY, STRING_ADDITION,
     DATE_DIFF_DAYS, DATE_DIFF_MONTHS, DATE_DIFF_YEARS, DATE_ADDITION,
     POWER, LOG, LOG10, EXP, SQRT, COS, SIN, TAN, DATA_SOURCE}

\* every parser is called with (tokens, raw_ins, algorithm_seq, program_version):
\* a parser whose second and third parameters are step and ins_type receives
\* the record as step, algorithm_seq as ins_type, program_version as
\* algorithm_or_dependency, and its own program_version defaults to None
decode_ins(r, alg, pv) ==
    LET ins_str == r.ins
        tokens == tokenize(ins_str)
        it == InsType(r.t)
        code == it.value[2]
    IN IF ins_str # <<>> /\ Contains(ins_str, "^")
       THEN parse_if(tokens, r, alg, pv, "")
       ELSE IF ~it.raised /\ code \in DecodeDispatch
       THEN CASE code = ARITHMETIC -> parse_arithmetic(tokens, PyDict(r), alg, pv, PyNone, "")
              [] code = IF_ -> parse_if(tokens, r, alg, pv, "")
              [] code = CALL -> parse_call(tokens, r, alg, pv, "")
              [] code = SORT -> parse_sort(tokens, PyDict(r), alg, pv, PyNone, "")
              [] code = MASK -> parse_mask(tokens, PyDict(r), alg, pv, PyNone, "")
              [] code = SET_STRING ->
                    parse_set_string(tokens, PyDict(r), alg, pv, PyNone, "")
              [] code = EMPTY -> parse_empty(tokens, PyDict(r), alg, pv, PyNone, "")
              [] code = STRING_ADDITION ->
                    parse_string_addition(tokens, r, alg, pv, PyNone, "")
              [] code \in {DATE_DIFF_DAYS, DATE_DIFF_MONTHS, DATE_DIFF_YEARS} ->
                    parse_date_diff(tokens, PyDict(r), alg, pv, PyNone, "")
              [] code = DATE_ADDITION ->
                    parse_date_addition(tokens, PyDict(r), alg, pv, PyNone, "")
              [] code = DATA_SOURCE -> parse_data_source(tokens, r, alg, pv, "")
              [] OTHER -> parse_function(tokens, PyDict(r), alg, pv, PyNone, "")
       ELSE parse(tokens, r, alg, pv, PyNone)

\* ---------------------------------------------------------------- inputs
GI_84 == <<"G", "I", "_", "8", "4">>
GC_47 == <<"G", "C", "_", "4", "7">>

Operands == {GI_84, GC_47}
CompareOps == {<<"=">>, <<"<", ">">>}
Joiners == {<<"^">>, <<"+">>}
Markers == {<<"!", "R", "N">>, <<"!", "R", "P", "2">>, <<"!", "R", "M", "1">>, <<"!">>}

Cond(L, o, R) == <<"|">> \o L \o <<"|">> \o o \o <<"|">> \o R \o <<"|">>

\* |L|OP|R|
CondTexts == {Cond(L, o, R) : L \in Operands, o \in CompareOps, R \in Operands}

CoreCond == Cond(GI_84, <<"<", ">">>, GC_47)

\* conditions joined by '^' / '+', and clauses separated by '#'
MultiTexts ==
    {CoreCond \o j \o Cond(GC_47, <<"=">>, GI_84) : j \in Joiners}
    \cup {CoreCond \o j \o CoreCond \o k \o Cond(GC_47, <<"=">>, GI_84) :
            j \in Joiners, k \in Joiners}
    \cup {CoreCond \o <<"#">> \o Cond(GC_47, <<"=">>, GI_84),
          CoreCond \o <<"#">> \o CoreCond \o <<"+">> \o Cond(GC_47, <<"=">>, GI_84)}

\* L op R with an optional trailing rounding marker, and L with one
ArithTexts ==
    {L \o o \o GC_47 \o m : L \in Operands, o \in {<<"+">>, <<"=">>},
                            m \in Markers \cup {<<>>}}
    \cup {GI_84 \o m : m \in Markers}
    \cup {GI_84 \o <<"|">> \o GC_47 \o m : m \in Markers \cup {<<>>}}

Alphabet == {"|", "+", "#", "^", " ", "A"}

RECURSIVE Strings(_)
Strings(n) ==
    IF n = 0 THEN {<<>>}
    ELSE LET shorter == Strings(n - 1)
         IN shorter \cup {Append(s, c) : s \in {x \in shorter : Len(x) = n - 1},
                                         c \in Alphabet}

\* every text of at most MaxLen characters: empty, blank and malformed texts
ShortTexts == Strings(MaxLen)

\* bracketed string arguments, side by side and separated by a pipe
Bracketed(x) == <<"[">> \o x \o <<"]">>

ConcatTexts ==
    {Bracketed(<<"A">>), Bracketed(<<"A">>) \o Bracketed(GI_84),
     Bracketed(<<"A">>) \o <<"|">> \o Bracketed(GI_84)}

Texts == CondTexts \cup MultiTexts \cup ArithTexts \cup ShortTexts \cup ConcatTexts

\* type codes: members of both dispatch maps, of one, of none, and no InsType
TypeCodes ==
    {PyInt(c) : c \in {ARITHMETIC, IF_, CALL, SORT, SET_STRING, EMPTY, IF_DATE,
                       DATE_DIFF_DAYS, STRING_ADDITION, RANK_ACROSS_CATEGORY,
                       IS_DATE, DATE_ADDITION, POWER, COSH, DATA_SOURCE, 7, 999}}
    \cup {PyNone}

\* next-step fields: absent, the sentinels -2 and 0, a text that is no number,
\* and steps
SeqValues ==
    {PyNone, PyInt(-2), PyInt(0), <<"str", <<"A">>>>} \cup {PyInt(k) : k \in 1..MaxStep}

Record(n, t, ins, seq_t, seq_f) ==
    [n |-> n, t |-> t, ins |-> ins, ins_tar |-> <<>>, seq_t |-> seq_t, seq_f |-> seq_f]

\* every text without next-step fields, the core condition with every pair
RawInstructions ==
    {Record(n, t, ins, PyNone, PyNone) : n \in 1..MaxStep, t \in TypeCodes, ins \in Texts}
    \cup {Record(n, t, CoreCond, a, b) :
            n \in 1..MaxStep, t \in TypeCodes, a \in SeqValues, b \in SeqValues}
    \cup {Record(n, t, GI_84, a, b) :
            n \in 1..MaxStep, t \in {PyInt(IS_DATE)}, a \in SeqValues, b \in SeqValues}

dependency_list ==
    << [index |-> GI_84, custom_id |-> PyNone, description |-> <<"Driver Age">>] >>

input_list ==
    << [key |-> GC_47, description |-> <<"Base Rate">>],
       [key |-> GI_84, description |-> <<"Age Input">>] >>

\* the algorithm or dependency that owns the instruction, or None
Entities == {PyNone, <<"entity", dependency_list>>}

\* the program version with its data dictionary, or None
ProgramVersions == {PyNone, <<"pv", input_list>>}

NoResult == [raised |-> FALSE, err |-> "", nodes |-> <<>>]

\* ------------------------------------------------------- state machine
Init ==
    /\ raw_ins \in RawInstructions
    /\ algorithm_seq \in Entities
    /\ program_version \in ProgramVersions
    /\ token = <<>>
    /\ node = NoNode
    /\ path = <<>>
    /\ current_dependencies = PyNone
    /\ stack = <<>>
    /\ state = NoState
    /\ now = 0
    /\ returned = <<>>
    /\ op = "none"
    /\ result = NoResult
    /\ pc = "ready"

Call(name, res) ==
    /\ pc = "ready"
    /\ op' = name
    /\ result' = res
    /\ pc' = "done"
    /\ UNCHANGED <<raw_ins, algorithm_seq, program_version, token, node, path,
                 current_dependencies, stack, state, now, returned>>

\* tokenize(raw_ins['ins'])
Tokenize == Call("tokenize", Ok(tokenize(raw_ins.ins)))

\* decode_ins(raw_ins, algorithm_seq, program_version)
DecodeIns == Call("decode_ins", decode_ins(raw_ins, algorithm_seq, program_version))

\* parse(tokenize(raw_ins['ins']), raw_ins, algorithm_seq, program_version)
Parse ==
    Call("parse", parse(tokenize(raw_ins.ins), raw_ins, algorithm_seq,
                        program_version, PyNone))

\* parse_arithmetic(tokens, step, ins_type, ...) as line 118 of parse calls it
ParseArithmetic ==
    /\ raw_ins.t = PyInt(ARITHMETIC)
    /\ Call("parse_arithmetic",
            parse_arithmetic(tokenize(raw_ins.ins), PyInt(raw_ins.n),
                             InsTypeMember(ARITHMETIC), algorithm_seq,
                             program_version, ParseTemplate(ARITHMETIC)))

\* parse_function(tokens, step, ins_type, ...) as line 118 of parse calls it
ParseFunction ==
    /\ raw_ins.t \in {PyInt(c) : c \in FunctionTypes}
    /\ Call("parse_function",
            parse_function(tokenize(raw_ins.ins), PyInt(raw_ins.n),
                           InsTypeMember(raw_ins.t[2]), algorithm_seq,
                           program_version, ParseTemplate(raw_ins.t[2])))

Next == Tokenize \/ DecodeIns \/ Parse \/ ParseArithmetic \/ ParseFunction

Spec == Init /\ [][Next]_vars

\* ------------------------------------------------------------ properties
Decoded == pc = "done" /\ op = "decode_ins"

ContextSupplied == ~IsNone(algorithm_seq) /\ ~IsNone(program_version)

ConditionalCodes == {PyInt(IF_), PyInt(IF_DATE)}

\* the step field of a node and of every node nested in it
RECURSIVE StepsOf(_)
StepsOf(nd) ==
    {nd.step} \cup
    CASE nd.node \in {"CompareNode", "ArithmeticNode"} ->
            StepsOf(nd.left) \cup StepsOf(nd.right)
      [] nd.node = "TypeCheckNode" -> StepsOf(nd.left)
      [] nd.node = "IfNode" ->
            StepsOf(nd.condition)
            \cup UNION {StepsOf(nd.true_branch[k]) : k \in 1..Len(nd.true_branch)}
            \cup UNION {StepsOf(nd.false_branch[k]) : k \in 1..Len(nd.false_branch)}
      [] nd.node = "FunctionNode" ->
            UNION {StepsOf(nd.args[k]) : k \in 1..Len(nd.args)}
      [] nd.node = "AssignmentNode" -> StepsOf(nd.expr)
      [] OTHER -> {}

\* C1: decode_ins returns a list of nodes for every instruction record and
\* never raises to its caller.
C1_DecodeInsNeverRaises == Decoded => ~result.raised

\* C5: every node decode_ins returns, nested nodes included, has the step
\* number n of the instruction record it was decoded from.
C5_EveryNodeHasStepN ==
    (Decoded /\ ~result.raised) =>
        \A k \in 1..Len(result.nodes) : StepsOf(result.nodes[k]) = {PyInt(raw_ins.n)}

\* the branch a next-step field must produce: empty when the field is absent
\* or not positive, otherwise one Jump placeholder to that step
ExpectedBranch(branch, seq) ==
    IF IsNone(seq) \/ seq[2] <= 0
    THEN branch = <<>>
    ELSE /\ Len(branch) = 1
         /\ branch[1].node = "JumpNode"
         /\ branch[1].target = seq[2]

\* C6: after decoding an IF or IF_DATE instruction each branch is empty or one
\* Jump placeholder to the instruction's next-step field, and it is empty
\* exactly when that field is absent or non-positive.
C6_BranchesArePlaceholders ==
    (Decoded /\ raw_ins.t \in ConditionalCodes /\ raw_ins.ins \in CondTexts
             /\ ~result.raised) =>
        \A k \in 1..Len(result.nodes) :
            result.nodes[k].node = "IfNode" =>
                /\ ExpectedBranch(result.nodes[k].true_branch, raw_ins.seq_t)
                /\ ExpectedBranch(result.nodes[k].false_branch, raw_ins.seq_f)

\* one Conditional node comparing L with R by operator o
IsCondition(ns, L, o, R) ==
    /\ Len(ns) = 1
    /\ ns[1].node = "IfNode"
    /\ ns[1].condition.node = "CompareNode"
    /\ ns[1].condition.left.raw = L
    /\ ns[1].condition.operator = o
    /\ ns[1].condition.right.raw = R

\* C7: a conditional instruction whose text is exactly |L|OP|R| decodes to one
\* Conditional node with left raw L, operator OP and right raw R.
C7_ConditionFromPipes ==
    (Decoded /\ raw_ins.t \in ConditionalCodes /\ ContextSupplied) =>
        \A L \in Operands, o \in CompareOps, R \in Operands :
            raw_ins.ins = Cond(L, o, R) =>
                ~result.raised /\ IsCondition(result.nodes, L, o, R)

\* texts of N >= 2 conditions joined by '^' / '+' only
JoinedTexts == {x \in MultiTexts : ~Contains(x, MULTI_IF_SYMBOL)}

\* the number of fragments of a joined text: one more than its joiners
FragmentCount(text) ==
    1 + Cardinality({i \in 1..Len(text) : text[i] \in {"^", "+"}})

\* C8: a text of N condition fragments joined by '^' / '+' decodes to exactly
\* N condition nodes, one per fragment.
C8_OneConditionPerFragment ==
    (Decoded /\ raw_ins.t \in ConditionalCodes /\ raw_ins.ins \in JoinedTexts
             /\ ContextSupplied) =>
        /\ ~result.raised
        /\ Len(result.nodes) = FragmentCount(raw_ins.ins)
        /\ \A k \in 1..Len(result.nodes) : result.nodes[k].node = "IfNode"

RoundingMarkers == {<<"!", "R", "N">>, <<"!", "R", "P", "2">>, <<"!", "R", "M", "1">>}

\* one Arithmetic node L + R with the given rounding specification
IsArithmetic(ns, L, o, R, spec) ==
    /\ Len(ns) = 1
    /\ ns[1].node = "ArithmeticNode"
    /\ ns[1].left.raw = L
    /\ ns[1].operator = o
    /\ ns[1].right.raw = R
    /\ ns[1].round_spec = spec

\* C9: decoding the ARITHMETIC text L+R!RN yields one Arithmetic node with left
\* raw L, operator '+', right raw R and rounding specification RN.
C9_ArithmeticExample ==
    (Decoded /\ raw_ins.t = PyInt(ARITHMETIC) /\ ContextSupplied) =>
        \A L \in Operands :
            raw_ins.ins = L \o <<"+">> \o GC_47 \o <<"!", "R", "N">> =>
                /\ ~result.raised
                /\ IsArithmetic(result.nodes, L, <<"+">>, GC_47, Round(<<"R", "N">>))

\* C10: for arithmetic and function tokens ending in a rounding marker (!RN,
\* !RP2, !RM1) the marker is taken off the operand list before the shape check
\* and the rounding specification is the marker without its '!'.
C10_RoundingMarkerDetached ==
    /\ (pc = "done" /\ op = "parse_arithmetic" /\ ContextSupplied) =>
            \A L \in Operands, o \in {<<"+">>, <<"=">>}, m \in RoundingMarkers :
                raw_ins.ins = L \o o \o GC_47 \o m =>
                    /\ ~result.raised
                    /\ IsArithmetic(result.nodes, L, o, GC_47, Round(Tail(m)))
    /\ (pc = "done" /\ op = "parse_function") =>
            \A m \in RoundingMarkers :
                raw_ins.ins = GI_84 \o m =>
                    /\ ~result.raised
                    /\ Len(result.nodes) = 1
                    /\ result.nodes[1].node = "FunctionNode"
                    /\ result.nodes[1].round_spec = Round(Tail(m))
                    /\ Len(result.nodes[1].args) = 1
                    /\ result.nodes[1].args[1].raw = GI_84


\* ------------------------------------------- variable grammar: the calls
VarAlphabet == {"G", "D", "~", "_", ".", "1"}

VarMarkers == {<<>>, <<"~">>, <<"D">>}

\* three of the category prefixes VAR_PREFIXES lists
KnownPrefixes == {<<"G", "I">>, <<"G", "C">>, <<"P", "C">>}

IdTexts == {<<"8", "4">>, <<"1">>, <<"0", "7">>}

SubIdTexts == {<<>>, <<".", "2">>, <<".", "1", "0">>}

\* every short text over the alphabet, and the variable tokens of the data
VarTokens ==
    UNION {[1..n -> VarAlphabet] : n \in 0..MaxTokenLen}
    \cup {m \o p \o <<"_">> \o d \o sub :
            m \in VarMarkers, p \in KnownPrefixes, d \in IdTexts, sub \in SubIdTexts}

NoInstruction == Record(1, PyNone, <<>>, PyNone, PyNone)

InitGrammar ==
    /\ token \in VarTokens
    /\ node = NoNode
    /\ raw_ins = NoInstruction
    /\ algorithm_seq = PyNone
    /\ program_version = PyNone
    /\ path = <<>>
    /\ current_dependencies = PyNone
    /\ stack = <<>>
    /\ state = NoState
    /\ now = 0
    /\ returned = <<>>
    /\ op = "none"
    /\ result = NoResult
    /\ pc = "ready"

\* split_var_token(token)
SplitVarToken == Call("split_var_token", split_var_token(token))

NextGrammar == SplitVarToken

SpecGrammar == InitGrammar /\ [][NextGrammar]_vars

\* the token once a single leading negation/delta marker is removed
Unmarked(tok) ==
    IF tok # <<>> /\ Head(tok) \in {"~", "D"} THEN Tail(tok) ELSE tok

\* the text between the first underscore and the first dot after it
IdPart(tok) ==
    LET body == Unmarked(tok)
        us == find(body, "_", 1)
        dot == find(body, ".", us + 1)
    IN IF dot = 0 THEN SubSeq(body, us + 1, Len(body))
       ELSE SubSeq(body, us + 1, dot - 1)

HasSubId(tok) ==
    LET body == Unmarked(tok)
    IN find(body, ".", find(body, "_", 1) + 1) > 0

\* the text after the first dot that follows the underscore
SubIdPart(tok) ==
    LET body == Unmarked(tok)
        dot == find(body, ".", find(body, "_", 1) + 1)
    IN SubSeq(body, dot + 1, Len(body))

LacksUnderscore(tok) == ~Contains(tok, "_")

AllDigits(s) == s # <<>> /\ \A i \in 1..Len(s) : s[i] \in Digits

NonNumericId(tok) ==
    /\ ~LacksUnderscore(tok)
    /\ \/ ~AllDigits(IdPart(tok))
       \/ HasSubId(tok) /\ ~AllDigits(SubIdPart(tok))

\* <prefix>_<digits> or <prefix>_<digits>.<digits> after an optional marker
WellFormedVar(tok) ==
    /\ ~LacksUnderscore(tok)
    /\ find(Unmarked(tok), "_", 1) = 3
    /\ ~NonNumericId(tok)

ExpectedTriple(tok) ==
    << SubSeq(Unmarked(tok), 1, 2), PyInt(int(IdPart(tok))),
       IF HasSubId(tok) THEN PyInt(int(SubIdPart(tok))) ELSE PyNone >>

SplitDone == pc = "done" /\ op = "split_var_token"

\* C11: split_var_token returns exactly (prefix, id, sub-id or none) for every
\* token <prefix>_<digits> or <prefix>_<digits>.<digits> with a two-character
\* prefix and at most one leading marker, and fails with the malformed-variable
\* error, never returning a value, for every token that lacks an underscore or
\* whose id or sub-id part is not purely numeric.
C11_VariableGrammar ==
    SplitDone =>
        /\ WellFormedVar(token) => result = Value(ExpectedTriple(token))
        /\ (LacksUnderscore(token) \/ NonNumericId(token)) =>
                result.raised /\ result.err = "ValueError"


\* ------------------------------------------------ var lookup: the calls
\* dependencies as DependencyBase declares them: index and custom_id integers
numeric_dependency_list ==
    << [index |-> PyInt(84), custom_id |-> PyNone, description |-> <<"Driver Age">>],
       [index |-> PyInt(7), custom_id |-> PyInt(47), description |-> <<"Territory">>] >>

\* an entity whose dependency_vars field is None
NoDependencyVars == <<"entity_none">>

LookupEntities ==
    {PyNone, NoDependencyVars, <<"entity", <<>>>>, <<"entity", numeric_dependency_list>>}

PC_47 == <<"P", "C", "_", "4", "7">>
GI_7 == <<"G", "I", "_", "7">>
GI_9 == <<"G", "I", "_", "9">>

LookupKeys == {GI_84, GC_47, PC_47, GI_7, GI_9}

\* keys with a marker or a sub-id, and texts that are no variable at all
LookupTokens ==
    LookupKeys \cup {<<"~">> \o k : k \in LookupKeys}
               \cup {k \o <<".", "2">> : k \in LookupKeys}
               \cup {<<>>, <<"A">>, <<"8", "4">>, <<"4", "7">>}

InitLookup ==
    /\ token \in LookupTokens
    /\ node = NoNode
    /\ raw_ins = NoInstruction
    /\ algorithm_seq \in LookupEntities
    /\ program_version \in ProgramVersions
    /\ path = <<>>
    /\ current_dependencies = PyNone
    /\ stack = <<>>
    /\ state = NoState
    /\ now = 0
    /\ returned = <<>>
    /\ op = "none"
    /\ result = NoResult
    /\ pc = "ready"

\* get_var_desc(token, algorithm_seq, program_version)
GetVarDesc ==
    Call("get_var_desc", get_var_desc(token, algorithm_seq, program_version))

NextLookup == GetVarDesc

SpecLookup == InitLookup /\ [][NextLookup]_vars

LookupDone == pc = "done" /\ op = "get_var_desc"

\* the id a well-formed token carries
ParsedId(tok) == PyInt(int(IdPart(tok)))

\* the dependency-list entries whose numeric id or custom id is the token's id
DependencyMatches(tok, parent_entity) ==
    IF parent_entity[1] # "entity" \/ ~WellFormedVar(tok) THEN {}
    ELSE {k \in 1..Len(parent_entity[2]) :
            \/ parent_entity[2][k].index = ParsedId(tok)
            \/ parent_entity[2][k].custom_id = ParsedId(tok)}

\* the global inputs whose key is the token
InputMatches(tok, pv) ==
    IF pv[1] # "pv" THEN {}
    ELSE {k \in 1..Len(pv[2]) : pv[2][k].key = tok}

\* C12: get_var_desc returns the description of the dependency-list entry whose
\* numeric id or custom id equals the token's parsed id when there is one (even
\* when the global dictionary also matches), otherwise the description of the
\* global input whose key matches, otherwise the token text unchanged.  Stated
\* for calls given both an entity with a dependency list and a program version.
C12_ResolutionOrder ==
    (LookupDone /\ algorithm_seq[1] = "entity" /\ program_version[1] = "pv") =>
        LET deps == DependencyMatches(token, algorithm_seq)
            inputs == InputMatches(token, program_version)
        IN /\ ~result.raised
           /\ IF deps # {}
              THEN \E k \in deps : result.value = algorithm_seq[2][k].description
              ELSE IF inputs # {}
                   THEN \E k \in inputs : result.value = program_version[2][k].description
                   ELSE result.value = token


ContextAbsent == IsNone(algorithm_seq) \/ IsNone(program_version)

\* the same instruction decoded with both contexts supplied
DecodedWithContext ==
    decode_ins(raw_ins, <<"entity", dependency_list>>, <<"pv", input_list>>)

\* C13: degraded mode.  When the dependency list, the program version, or both
\* are None, decoding (and the variable resolution it performs) still succeeds:
\* an instruction that decodes with both contexts supplied never raises because
\* a context is absent.
C13_DegradedMode ==
    (Decoded /\ ContextAbsent /\ ~DecodedWithContext.raised) => ~result.raised


\* a type code that is no InsType, or one neither dispatch table lists
Unclassified(t) ==
    \/ InsType(t).raised
    \/ InsType(t).value[2] \notin (ParseDispatch \cup DecodeDispatch)

\* the descriptions the supplied contexts can resolve a text to
Descriptions ==
    {dependency_list[k].description : k \in 1..Len(dependency_list)}
    \cup {input_list[k].description : k \in 1..Len(input_list)}

\* C14: an instruction whose type code no dispatch table lists decodes to exactly
\* one RawNode whose value is non-empty and is the resolved, or failing that the
\* raw, instruction text, and whose rendered English equals that value.  Stated
\* for a non-empty text decoded with both contexts supplied.
C14_UnclassifiedLeaf ==
    (Decoded /\ Unclassified(raw_ins.t) /\ ContextSupplied /\ raw_ins.ins # <<>>) =>
        /\ ~result.raised
        /\ Len(result.nodes) = 1
        /\ result.nodes[1].node = "RawNode"
        /\ result.nodes[1].value # <<>>
        /\ result.nodes[1].value \in {raw_ins.ins} \cup Descriptions
        /\ render_node(result.nodes[1]).value = result.nodes[1].value


\* the bracketed arguments of a text, brackets kept, in order
RECURSIVE BracketedArgs(_)
BracketedArgs(text) ==
    LET open == find(text, "[", 1)
        close == find(text, "]", open + 1)
    IN IF open = 0 \/ close = 0 THEN <<>>
       ELSE <<SubSeq(text, open, close)>>
                \o BracketedArgs(SubSeq(text, close + 1, Len(text)))

\* the argument leaves a node exposes, its own or those of its expression
ArgsOf(nd) ==
    IF "args" \in DOMAIN nd THEN nd.args
    ELSE IF "expr" \in DOMAIN nd /\ "args" \in DOMAIN nd.expr THEN nd.expr.args
    ELSE <<>>

\* C15: decoding a string-concatenation instruction with bracketed arguments
\* yields exactly one node with template id STRING_CONCAT that exposes one
\* argument leaf per bracketed argument; each leaf's raw field keeps the brackets
\* and its value is the text without them.
C15_StringConcatArguments ==
    (Decoded /\ raw_ins.t = PyInt(STRING_ADDITION) /\ raw_ins.ins \in ConcatTexts) =>
        LET expected == BracketedArgs(raw_ins.ins)
        IN /\ ~result.raised
           /\ Len(result.nodes) = 1
           /\ result.nodes[1].template_id = "STRING_CONCAT"
           /\ Len(ArgsOf(result.nodes[1])) = Len(expected)
           /\ \A k \in 1..Len(expected) :
                /\ ArgsOf(result.nodes[1])[k].raw = expected[k]
                /\ ArgsOf(result.nodes[1])[k].value
                        = SubSeq(expected[k], 2, Len(expected[k]) - 1)


\* ---------------------------------------------------- renderer: the calls
\* one instruction per node shape the parsers build
RenderInstructions ==
    {Record(1, PyInt(IF_), CoreCond, PyInt(2), PyNone),
     Record(1, PyInt(IS_DATE), GI_84, PyInt(2), PyNone),
     Record(1, PyInt(ARITHMETIC), GI_84 \o <<"=">> \o GC_47 \o <<"!", "R", "N">>,
            PyNone, PyNone),
     Record(1, PyInt(SET_STRING), GI_84 \o <<"|">> \o GC_47, PyNone, PyNone),
     Record(1, PyInt(STRING_ADDITION), Bracketed(<<"A">>), PyNone, PyNone),
     Record(1, PyInt(POWER), GI_84, PyNone, PyNone),
     Record(1, PyInt(SORT), GI_84, PyNone, PyNone),
     Record(1, PyInt(7), GI_84, PyNone, PyNone)}

\* the nodes parse returned
ParsedNodes(ns) == {ns[k] : k \in 1..Len(ns)}

\* their conditions and branches
ChildNodes(ns) ==
    UNION {IF nd.node = "IfNode"
           THEN {nd.condition} \cup {nd.true_branch[k] : k \in 1..Len(nd.true_branch)}
           ELSE {} : nd \in ParsedNodes(ns)}

EnglishValues == {PyNone, <<>>, <<"Pre-computed description">>}

TemplateIds == {Unset, "", "NO_SUCH_TEMPLATE"}

\* every node as built, with an English text set, and with another template id
RenderNodes(ns) ==
    LET built == ParsedNodes(ns) \cup ChildNodes(ns)
        described == built \cup {[english |-> e] @@ nd : nd \in built, e \in EnglishValues}
    IN described \cup {[nd EXCEPT !.template_id = t] : nd \in described, t \in TemplateIds}

InitRender ==
    /\ raw_ins \in RenderInstructions
    /\ algorithm_seq = <<"entity", dependency_list>>
    /\ program_version = <<"pv", input_list>>
    /\ token = <<>>
    /\ node = NoNode
    /\ path = <<>>
    /\ current_dependencies = PyNone
    /\ stack = <<>>
    /\ state = NoState
    /\ now = 0
    /\ returned = <<>>
    /\ op = "none"
    /\ result = NoResult
    /\ pc = "ready"

\* parse(tokenize(raw_ins['ins']), raw_ins, algorithm_seq, program_version)
\* builds the nodes; one of them, as built or as a caller has described it, is
\* the node to render
BuildNode ==
    /\ pc = "ready"
    /\ node' \in RenderNodes(parse(tokenize(raw_ins.ins), raw_ins, algorithm_seq,
                                   program_version, PyNone).nodes)
    /\ op' = "parse"
    /\ pc' = "built"
    /\ UNCHANGED <<raw_ins, algorithm_seq, program_version, token, path,
                   current_dependencies, stack, state, now, returned, result>>

\* render_node(node): node keeps the argument as passed, result holds the text
\* returned and the node object as the call leaves it (english set on error)
RenderNode ==
    /\ pc = "built"
    /\ op' = "render_node"
    /\ LET rendered == render_node(node)
       IN result' = [raised |-> FALSE, err |-> "", value |-> rendered.value,
                     node |-> rendered.node]
    /\ pc' = "done"
    /\ UNCHANGED <<raw_ins, algorithm_seq, program_version, token, node, path,
                 current_dependencies, stack, state, now, returned>>

NextRender == BuildNode \/ RenderNode

SpecRender == InitRender /\ [][NextRender]_vars

RenderDone == pc = "done" /\ op = "render_node"

NoTemplate(nd) == ~hasattr(nd, "template_id") \/ nd.template_id \notin TEMPLATES

HasDescription(nd) == hasattr(nd, "english") /\ ~falsy(nd.english)

\* the texts that say no template was found for the node
NoTemplateMarkers(nd) ==
    {<<"No Template found: ", nd.template_id>>, <<"What?">>,
     <<"'", nd.node, "' object has no attribute 'template_id'">>}

\* C16: render_node is total, and for a node whose template id is missing or
\* unrecognized it returns the node's pre-computed description, or an explicit
\* no-template marker when the node has none.
C16_RenderTotal ==
    RenderDone =>
        /\ ~result.raised
        /\ NoTemplate(node) =>
                IF HasDescription(node)
                THEN result.value = node.english
                ELSE result.value \in NoTemplateMarkers(node)

\* ------------------------------------------------------------ lexer calls
\* the characters the delimiters that begin one another are made of
LexAlphabet == {">", "<", "=", "!", "R", "N", "S", "2"}

LexTexts == UNION {[1..n -> LexAlphabet] : n \in 0..MaxLexLen}

InitLex ==
    /\ raw_ins \in {Record(1, PyNone, t, PyNone, PyNone) : t \in LexTexts}
    /\ token = <<>>
    /\ node = NoNode
    /\ algorithm_seq = PyNone
    /\ program_version = PyNone
    /\ path = <<>>
    /\ current_dependencies = PyNone
    /\ stack = <<>>
    /\ state = NoState
    /\ now = 0
    /\ returned = <<>>
    /\ op = "none"
    /\ result = NoResult
    /\ pc = "ready"

\* tokenize(raw) on a text of delimiter characters
TokenizeText == Call("tokenize", Ok(tokenize(raw_ins.ins)))

NextLex == TokenizeText

SpecLex == InitLex /\ [][NextLex]_vars

LexDone == pc = "done" /\ op = "tokenize"

\* the delimiters that apply at position i
Applicable(raw, i) == {d \in OperatorSet : MatchesAt(raw, i, d)}

\* the longest delimiter that applies at position i
LongestAt(raw, i) ==
    CHOOSE d \in Applicable(raw, i) : \A e \in Applicable(raw, i) : Len(e) <= Len(d)

\* the parts of raw when the longest applicable delimiter is cut at each position
RECURSIVE longest_split(_, _, _)
longest_split(raw, i, cur) ==
    IF i > Len(raw) THEN <<cur>>
    ELSE IF Applicable(raw, i) = {}
    THEN longest_split(raw, i + 1, Append(cur, raw[i]))
    ELSE <<cur, LongestAt(raw, i)>>
            \o longest_split(raw, i + Len(LongestAt(raw, i)), <<>>)

LongestParts(raw) == SelectSeq(longest_split(raw, 1, <<>>), LAMBDA p : p # <<>>)

IsPrefix(a, b) == Len(a) <= Len(b) /\ SubSeq(b, 1, Len(a)) = a

\* token k is a delimiter that, with the text after it, begins a longer one
SplitShort(tokens, k) ==
    /\ tokens[k].type = "OP"
    /\ k < Len(tokens)
    /\ \E d \in OperatorSet :
            /\ Len(d) > Len(tokens[k].value)
            /\ IsPrefix(d, tokens[k].value \o tokens[k + 1].value)

\* C17: lexer longest match.  Wherever more than one delimiter applies, tokenize
\* emits the longest one as a single operator token: the tokens are the parts cut
\* at the longest applicable delimiter, and '!RN', '!RS', '!R2', '>=' and '<='
\* are never a shorter delimiter followed by the rest.
C17_LongestMatch ==
    LexDone =>
        /\ ~result.raised
        /\ TokenValues(result.nodes) = LongestParts(raw_ins.ins)
        /\ \A k \in 1..Len(result.nodes) :
                /\ result.nodes[k].type = "OP" <=> result.nodes[k].value \in OperatorSet
                /\ ~SplitShort(result.nodes, k)

\* C17 witness: '!RN' next to '=': three delimiters apply at the first position
\* and the three characters come out as one operator token
C17_Witness ==
    /\ LexDone
    /\ raw_ins.ins = <<"!", "R", "N", "=">>
    /\ Cardinality(Applicable(raw_ins.ins, 1)) > 1
    /\ result.nodes = <<Token("OP", <<"!", "R", "N">>), Token("OP", <<"=">>)>>

\* ------------------------------------------------------- repository calls
\* the elements open at once: export, item, d, d, i
MaxDepth == 5
\* the children of one element
MaxChildren == 2

\* the element names the attribute maps give a meaning, by parent
ChildNames(parent) ==
    CASE parent = "export" -> {"item"}
      [] parent \in {"item", "d"} -> {"d", "i"}
      [] OTHER -> {}

\* one entry of the path xmltodict hands the postprocessor: the element's name,
\* and for its attributes the place of the element in the document
Element(name, index) == [name |-> name, index |-> index, children |-> 0]

\* the attributes of a <d> element: its index tells the dependencies apart
DependencyValue(index) == PyDict([index |-> index])

\* the attributes of an <i> element: one that decodes without a program version
\* and one whose variable lookup needs it
StepValues ==
    {Record(1, PyInt(ARITHMETIC), <<"A">>, PyNone, PyNone),
     Record(1, PyInt(IF_), CoreCond, PyNone, PyNone)}

InitRepository ==
    /\ raw_ins = NoInstruction
    /\ algorithm_seq = PyNone
    /\ program_version = PyNone
    /\ token = <<>>
    /\ node = NoNode
    /\ path = <<>>
    /\ current_dependencies = PyNone
    /\ stack = <<>>
    /\ state = NoState
    /\ now = 0
    /\ returned = <<>>
    /\ op = "none"
    /\ result = NoResult
    /\ pc = "ready"

\* get_program_version: xmltodict.parse opens the document
GetProgramVersion ==
    /\ pc = "ready"
    /\ pc' = "parsing"
    /\ path' = <<Element("export", <<>>)>>
    /\ op' = "get_program_version"
    /\ UNCHANGED <<raw_ins, algorithm_seq, program_version, token, node,
                   current_dependencies, stack, state, now, returned, result>>

\* an opening tag: the path grows; the attribute callbacks map keys only
StartElement ==
    /\ pc = "parsing"
    /\ Len(path) < MaxDepth
    /\ path[Len(path)].children < MaxChildren
    /\ \E name \in ChildNames(path[Len(path)].name) :
            LET top == path[Len(path)]
                k == top.children + 1
            IN path' = Append([path EXCEPT ![Len(path)].children = k],
                              Element(name, Append(top.index, k)))
    /\ op' = "start"
    /\ UNCHANGED <<raw_ins, algorithm_seq, program_version, token, node,
                   current_dependencies, stack, state, now, returned, result, pc>>

Popped == SubSeq(path, 1, Len(path) - 1)

\* a closing tag: _entity_aware_postprocessor(path, key, value) for the element
EndElement ==
    /\ pc = "parsing"
    /\ Len(path) > 1
    /\ LET key == path[Len(path)].name
       IN CASE key = "d" ->
                \* mapped_key == "dependency_vars": the value is stored
                /\ current_dependencies' = DependencyValue(path[Len(path)].index)
                /\ path' = Popped
                /\ op' = "dependency_vars"
                /\ UNCHANGED <<raw_ins, algorithm_seq, program_version, result, pc>>
            [] key = "i" ->
                \* mapped_key == "steps": decode_ins(value, dependencies_list,
                \* program_version=None); an exception leaves the parse
                \E value \in StepValues :
                    LET dependencies_list == current_dependencies
                        res == decode_ins(value, dependencies_list, PyNone)
                    IN /\ raw_ins' = value
                       /\ algorithm_seq' = dependencies_list
                       /\ program_version' = PyNone
                       /\ result' = res
                       /\ op' = "steps"
                       /\ path' = IF res.raised THEN path ELSE Popped
                       /\ pc' = IF res.raised THEN "done" ELSE pc
                       /\ UNCHANGED current_dependencies
            [] OTHER ->
                /\ path' = Popped
                /\ op' = "algorithm"
                /\ UNCHANGED <<raw_ins, algorithm_seq, program_version,
                               current_dependencies, result, pc>>
    /\ UNCHANGED <<token, node, stack, state, now, returned>>

\* the closing tag of the root: parse returns
EndDocument ==
    /\ pc = "parsing"
    /\ Len(path) = 1
    /\ path' = <<>>
    /\ pc' = "done"
    /\ op' = "parsed"
    /\ UNCHANGED <<raw_ins, algorithm_seq, program_version, token, node,
                   current_dependencies, stack, state, now, returned, result>>

NextRepository == GetProgramVersion \/ StartElement \/ EndElement \/ EndDocument

SpecRepository == InitRepository /\ [][NextRepository]_vars

\* the last callback decoded the steps of an entity
StepsDecoded == op = "steps"

\* the place of the entity whose steps were decoded
StepsOwner ==
    IF result.raised THEN path[Len(path) - 1].index ELSE path[Len(path)].index

\* a dependency list that belongs to the entity at owner: none, or a dependency
\* directly under it
OwnContext(owner, deps) ==
    \/ deps = PyNone
    \/ /\ deps[1] = "dict"
       /\ Len(deps[2].index) = Len(owner) + 1
       /\ SubSeq(deps[2].index, 1, Len(owner)) = owner

\* C18: no shared mutable context.  The decoding of the steps of an algorithm
\* or dependency receives only the dependency list of that same entity; no
\* decode call observes a list stored by a sibling, nested or earlier entity.
C18_NoSharedContext == StepsDecoded => OwnContext(StepsOwner, algorithm_seq)

\* a next-step field that is present and is no integer
NonInteger(seq) == seq[1] = "str"

\* the record with its unparsable next-step fields left out
AsAbsent(r) ==
    [r EXCEPT !.seq_t = IF NonInteger(@) THEN PyNone ELSE @,
              !.seq_f = IF NonInteger(@) THEN PyNone ELSE @]

DecodedAsAbsent == decode_ins(AsAbsent(raw_ins), algorithm_seq, program_version)

\* the branches of the nodes that have some
Branches(ns) ==
    [k \in 1..Len(ns) |->
        IF "true_branch" \in DOMAIN ns[k]
        THEN <<ns[k].true_branch, ns[k].false_branch>> ELSE <<>>]

\* C19: a next-step field that is present but is no integer is treated like an
\* absent one: wherever the instruction decodes without the field, it decodes
\* with it too, and the branches are those built without it.
C19_UnparsableNextStep ==
    (/\ Decoded
     /\ NonInteger(raw_ins.seq_t) \/ NonInteger(raw_ins.seq_f)
     /\ ~DecodedAsAbsent.raised)
        => /\ ~result.raised
           /\ Branches(result.nodes) = Branches(DecodedAsAbsent.nodes)

TypeCheckCodes == {PyInt(IS_DATE), PyInt(IS_NUMERIC), PyInt(IS_ALPHA)}

\* parse has handled a type-check instruction with parse_type_check
TypeCheckParsed ==
    /\ pc = "done" /\ op = "parse" /\ raw_ins.t \in TypeCheckCodes
    /\ ~result.raised
    /\ Len(result.nodes) = 1
    /\ result.nodes[1].node = "IfNode"
    /\ result.nodes[1].template_id = "TYPE_CHECK"

\* the IF instruction that carries the same next-step fields
IfWithSameFields ==
    parse_if(tokenize(CoreCond), [raw_ins EXCEPT !.t = PyInt(IF_), !.ins = CoreCond],
             algorithm_seq, program_version, "IF_COMPARE")

\* the shape of a branch: its Jump targets, in order
BranchShape(branch) == [k \in 1..Len(branch) |-> branch[k].target]

\* C20: a type-check instruction builds its branches from the next-step fields
\* exactly as a conditional instruction does: with the same seq_t and seq_f the
\* two have branches of the same shape (same emptiness, same Jump targets).
C20_TypeCheckBranches ==
    (TypeCheckParsed /\ ~IfWithSameFields.raised) =>
        /\ BranchShape(result.nodes[1].true_branch)
                = BranchShape(IfWithSameFields.nodes[1].true_branch)
        /\ BranchShape(result.nodes[1].false_branch)
                = BranchShape(IfWithSameFields.nodes[1].false_branch)

ArithmeticParsed == pc = "done" /\ op = "parse_arithmetic"

\* the tokens of the instruction once a trailing rounding marker is detached
RemainingTokens == round_split(tokenize(raw_ins.ins)).tokens

\* a leaf that carries a failure description, as the error leaves of decode_mif do
IsErrorLeaf(nd) ==
    /\ nd.node = "RawNode"
    /\ nd.value # <<>>
    /\ Head(nd.value) = "ERROR: "

\* C21: an arithmetic instruction with fewer than 3 tokens left after the rounding
\* marker is detached is a decode failure: the result is a single error leaf that
\* identifies the failure, never an Arithmetic node and never a raised exception.
C21_ShortArithmetic ==
    (ArithmeticParsed /\ Len(RemainingTokens) < 3) =>
        /\ ~result.raised
        /\ Len(result.nodes) = 1
        /\ result.nodes[1].node # "ArithmeticNode"
        /\ IsErrorLeaf(result.nodes[1])

\* the text before the first '#' and the text after it
PrefixClause(text) == strip(SubSeq(text, 1, find(text, MULTI_IF_SYMBOL, 1) - 1))
Remainder(text) == SubSeq(text, find(text, MULTI_IF_SYMBOL, 1) + 1, Len(text))

DecodedPrefix ==
    decode_ins([raw_ins EXCEPT !.ins = PrefixClause(raw_ins.ins)],
               algorithm_seq, program_version)
DecodedRemainder ==
    decode_ins([raw_ins EXCEPT !.ins = Remainder(raw_ins.ins)],
               algorithm_seq, program_version)

\* what a node says: its kind, and for a comparison its operands and operator
Clause(nd) ==
    IF nd.node = "IfNode" /\ nd.condition.node = "CompareNode"
    THEN <<nd.node, nd.condition.left.raw, nd.condition.operator,
           nd.condition.right.raw>>
    ELSE IF "raw" \in DOMAIN nd THEN <<nd.node, nd.raw, nd.value>>
    ELSE <<nd.node>>

Clauses(ns) == [k \in 1..Len(ns) |-> Clause(ns[k])]

\* C22: for a text containing the multi-branch marker '#', decoding returns the
\* nodes of the prefix clause followed by the nodes of the remainder, in textual
\* order; the marker is a sequential separator, not a join.  Stated for
\* conditional instructions whose prefix and remainder are non-empty and decode
\* on their own.
C22_MultiBranchSequence ==
    (/\ Decoded
     /\ raw_ins.t \in ConditionalCodes
     /\ Contains(raw_ins.ins, MULTI_IF_SYMBOL)
     /\ PrefixClause(raw_ins.ins) # <<>>
     /\ strip(Remainder(raw_ins.ins)) # <<>>
     /\ ~DecodedPrefix.raised
     /\ ~DecodedRemainder.raised)
        => /\ ~result.raised
           /\ Clauses(result.nodes)
                = Clauses(DecodedPrefix.nodes) \o Clauses(DecodedRemainder.nodes)

\* parse has handed the instruction to decode_mif
MifParsed ==
    /\ pc = "done" /\ op = "parse"
    /\ ~InsType(raw_ins.t).raised
    /\ InsType(raw_ins.t).value[2] \in ParseDispatch
    /\ \/ Contains(raw_ins.ins, MULTI_IF_SYMBOL)
       \/ Contains(raw_ins.ins, "^")
       \/ Contains(raw_ins.ins, "+")

\* the body decode_mif cuts into fragments: the text after the first '#', or all
MultiBody(text) ==
    IF Contains(text, MULTI_IF_SYMBOL) THEN Remainder(text) ELSE text

\* the texts decoded one by one: the prefix clause if there is one, then the
\* fragments
Positions(text) ==
    (IF Contains(text, MULTI_IF_SYMBOL) /\ PrefixClause(text) # <<>>
     THEN <<PrefixClause(text)>> ELSE <<>>)
    \o [k \in 1..Len(fragments(MultiBody(text), 1)) |->
            strip(fragments(MultiBody(text), 1)[k])]

DecodedPosition(k) ==
    decode_ins([raw_ins EXCEPT !.ins = Positions(raw_ins.ins)[k]],
               algorithm_seq, program_version)

SplitAccepted == SplitDone /\ ~result.raised

\* C24: the id the variable grammar returns is the number written between the
\* token's underscore and its optional dot, and the prefix is the two characters
\* before that underscore; a token whose underscore is not its third character
\* once the marker is stripped is never accepted with another id or with a
\* prefix that contains the underscore.
C24_IdBetweenUnderscoreAndDot ==
    SplitAccepted =>
        /\ find(Unmarked(token), "_", 1) = 3
        /\ result.value[1] = SubSeq(Unmarked(token), 1, 2)
        /\ ~Contains(result.value[1], "_")
        /\ AllDigits(IdPart(token))
        /\ result.value[2] = PyInt(int(IdPart(token)))

\* C25: render_node is pure.  Rendering a node, also one whose rendering fails
\* internally, leaves every field of the node unchanged (its pre-computed english
\* text in particular), so rendering the node again returns the same text.
C25_RenderPure ==
    RenderDone =>
        /\ result.node = node
        /\ render_node(result.node).value = result.value

\* ------------------------------------------------------- decoding in place
\* objects are told apart by reference: the record the caller passed, and the
\* objects decode_mif makes, one for each text it decodes
CallerRecord == 0

\* the texts decode_mif hands to decode_ins, in order: the trimmed base part if
\* there is one, then every fragment stripped
sub_texts(ins_str) ==
    LET idx_hash == find(ins_str, MULTI_IF_SYMBOL, 1)
        base_part == IF idx_hash > 0 THEN SubSeq(ins_str, 1, idx_hash - 1) ELSE <<>>
        multi_body == IF idx_hash > 0 THEN SubSeq(ins_str, idx_hash + 1, Len(ins_str))
                      ELSE ins_str
        trimmed_base == strip(base_part)
        frs == fragments(multi_body, 1)
    IN (IF trimmed_base # <<>> THEN <<trimmed_base>> ELSE <<>>)
       \o [k \in 1..Len(frs) |-> strip(frs[k])]

\* sub_raw = raw_ins: the same object under another name
dict_alias(ref, fresh) == ref

\* raw_ins.copy(): a new object with the same items
dict_copy(ref, fresh) == fresh

\* the object try block k of decode_mif assigns sub_raw["ins"] on
sub_raw(k) == dict_copy(CallerRecord, k)

\* parse hands the record to decode_mif
ReachesMifFromParse(r) ==
    /\ ~InsType(r.t).raised
    /\ InsType(r.t).value[2] \in ParseDispatch
    /\ \/ Contains(r.ins, MULTI_IF_SYMBOL)
       \/ Contains(r.ins, "^")
       \/ Contains(r.ins, "+")

\* decode_ins falls back to parse
ReachesParseFromDecode(r) ==
    /\ ~(r.ins # <<>> /\ Contains(r.ins, "^"))
    /\ InsType(r.t).raised \/ InsType(r.t).value[2] \notin DecodeDispatch

\* the caller's record once decode_mif has assigned every sub_raw["ins"]
after_mif(r) ==
    LET ps == sub_texts(r.ins)
        hits == {k \in 1..Len(ps) : sub_raw(k) = CallerRecord}
    IN IF hits = {} THEN r
       ELSE [r EXCEPT !.ins = ps[CHOOSE k \in hits : \A j \in hits : j <= k]]

after_parse(r) == IF ReachesMifFromParse(r) THEN after_mif(r) ELSE r

after_decode_ins(r) == IF ReachesParseFromDecode(r) THEN after_parse(r) ELSE r

\* the inputs as a call leaves them: get_var_desc and the parsers only read the
\* lookup context
Left(r) ==
    [raw_ins |-> r, algorithm_seq |-> algorithm_seq, program_version |-> program_version]

InitInPlace ==
    /\ raw_ins \in RawInstructions
    /\ algorithm_seq \in Entities
    /\ program_version \in ProgramVersions
    /\ token = <<>>
    /\ node = NoNode
    /\ path = <<>>
    /\ current_dependencies = PyNone
    /\ stack = <<>>
    /\ state = NoState
    /\ now = 0
    /\ returned = <<>>
    /\ op = "none"
    /\ result = NoResult
    /\ pc = "ready"

\* decode_ins(raw_ins, algorithm_seq, program_version): the variables keep the
\* arguments as passed, result holds the nodes and the inputs as the call leaves
\* them
DecodeInsInPlace ==
    Call("decode_ins",
         decode_ins(raw_ins, algorithm_seq, program_version)
            @@ Left(after_decode_ins(raw_ins)))

\* parse(tokenize(raw_ins['ins']), raw_ins, algorithm_seq, program_version)
ParseInPlace ==
    Call("parse",
         parse(tokenize(raw_ins.ins), raw_ins, algorithm_seq, program_version, PyNone)
            @@ Left(after_parse(raw_ins)))

NextInPlace == DecodeInsInPlace \/ ParseInPlace

SpecInPlace == InitInPlace /\ [][NextInPlace]_vars

DecodedInPlace == pc = "done" /\ op \in {"decode_ins", "parse"}

\* C26: decoding never mutates its inputs.  After any decode call, the
\* multi-condition path included, the instruction record passed in (text, step,
\* type, next-step fields) and the lookup context are as they were.
C26_InputsUnchanged ==
    DecodedInPlace =>
        /\ result.raw_ins = raw_ins
        /\ result.algorithm_seq = algorithm_seq
        /\ result.program_version = program_version

\* C26 witness: parse has decoded a two-fragment text through decode_mif, each
\* fragment on its own copy of the record
C26_Witness ==
    /\ DecodedInPlace
    /\ op = "parse"
    /\ ReachesMifFromParse(raw_ins)
    /\ Len(Positions(raw_ins.ins)) = 2
    /\ Len(result.nodes) = 2
    /\ Positions(raw_ins.ins)[2] # raw_ins.ins
    /\ result.raw_ins.ins = raw_ins.ins

\* ------------------------------------------------------- the call stack
\* the mutual recursion decode_ins -> parse -> decode_mif -> decode_ins, one
\* call or return at a time; a frame holds the function, the text of the record
\* it was given and the calls it has still to make
MaxStack == 12

\* the record a frame was given: the caller's, with the frame's text
FrameRecord(text) == [raw_ins EXCEPT !.ins = text]

CallTo(fn, text) == [fn |-> fn, text |-> text]

\* the calls a function makes into the recursion, in order; a parser it
\* dispatches to makes none
callees(fn, text) ==
    CASE fn = "decode_ins" ->
            IF ReachesParseFromDecode(FrameRecord(text))
            THEN <<CallTo("parse", text)>> ELSE <<>>
      [] fn = "parse" ->
            IF ReachesMifFromParse(FrameRecord(text))
            THEN <<CallTo("decode_mif", text)>> ELSE <<>>
      [] fn = "decode_mif" ->
            [k \in 1..Len(sub_texts(text)) |-> CallTo("decode_ins", sub_texts(text)[k])]

Frame(fn, text) == [fn |-> fn, text |-> text, todo |-> callees(fn, text)]

InitStack ==
    /\ raw_ins \in RawInstructions
    /\ algorithm_seq = PyNone
    /\ program_version = PyNone
    /\ token = <<>>
    /\ node = NoNode
    /\ path = <<>>
    /\ current_dependencies = PyNone
    /\ stack = <<>>
    /\ state = NoState
    /\ now = 0
    /\ returned = <<>>
    /\ op = "none"
    /\ result = NoResult
    /\ pc = "ready"

StackStep(name, frames, at) ==
    /\ stack' = frames
    /\ op' = name
    /\ pc' = at
    /\ UNCHANGED <<raw_ins, algorithm_seq, program_version, token, node, path,
                   current_dependencies, result, state, now, returned>>

\* the caller calls decode_ins(raw_ins, ...) or parse(tokens, raw_ins, ...)
Enter ==
    /\ pc = "ready"
    /\ \E fn \in {"decode_ins", "parse"} :
            StackStep(fn, <<Frame(fn, raw_ins.ins)>>, "running")

Top == stack[Len(stack)]

\* the running function makes its next call
CallNext ==
    /\ pc = "running"
    /\ Top.todo # <<>>
    /\ Len(stack) < MaxStack
    /\ LET c == Head(Top.todo)
       IN StackStep(c.fn,
                    Append([stack EXCEPT ![Len(stack)].todo = Tail(Top.todo)],
                           Frame(c.fn, c.text)),
                    "running")

\* the running function has no call left to make: it returns or raises
Return ==
    /\ pc = "running"
    /\ Top.todo = <<>>
    /\ StackStep("return", SubSeq(stack, 1, Len(stack) - 1),
                 IF Len(stack) = 1 THEN "done" ELSE "running")

NextStack == Enter \/ CallNext \/ Return

SpecStack == InitStack /\ [][NextStack]_vars

\* decode_mif frame i called the decode_ins frame above it
CalledByMif(i) ==
    /\ i < Len(stack)
    /\ stack[i].fn = "decode_mif"
    /\ stack[i + 1].fn = "decode_ins"

\* C27: the mutual recursion decode_ins -> parse -> decode_mif -> decode_ins
\* terminates: every decode_ins call decode_mif makes receives a text strictly
\* shorter than the text decode_mif was given, so the stack is never deeper than
\* three frames for each character of the caller's text and three more, and a
\* function that has no call left returns.
C27_RecursionShrinks ==
    /\ \A i \in 1..Len(stack) :
            CalledByMif(i) => Len(stack[i + 1].text) < Len(stack[i].text)
    /\ Len(stack) <= 3 * (Len(raw_ins.ins) + 1)
    /\ Len(stack) < MaxStack

\* C27 witness: a decode_mif called from inside a decode_mif is decoding one of
\* its own fragments
C27_Witness ==
    /\ \E i \in 1..Len(stack) : \E j \in 1..Len(stack) :
            i < j /\ CalledByMif(i) /\ CalledByMif(j)
    /\ Contains(raw_ins.ins, MULTI_IF_SYMBOL)

\* ------------------------------------------------------- rate_limit_callback
RATE_LIMIT_SECS == 60
RPM_QUOTA == 10

\* the clock stops here
MaxTime == 122

\* the seconds that pass between two calls, when any do
Gaps == {RATE_LIMIT_SECS - 1}

\* the text of the request's part
PartTexts == {<<>>, <<"A">>}

\* the session state and the sleep of a call made at time t that resets the
\* counter on every call
rate_limit_always_reset(st, t) ==
    [state |-> [timer_start |-> t, request_count |-> 1], delay |-> 0]

\* rate_limit_callback on session state st with time.time() = t: the state it
\* leaves and the seconds it sleeps
rate_limit_callback(st, t) ==
    IF "timer_start" \notin DOMAIN st
    THEN [state |-> [timer_start |-> t, request_count |-> 1], delay |-> 0]
    ELSE LET request_count == st.request_count + 1
             elapsed_secs == t - st.timer_start
         IN IF request_count > RPM_QUOTA
            THEN LET delay == RATE_LIMIT_SECS - elapsed_secs + 1
                 IN [state |-> [timer_start |-> t, request_count |-> 1],
                     delay |-> IF delay > 0 THEN delay ELSE 0]
            ELSE [state |-> [st EXCEPT !.request_count = request_count], delay |-> 0]

\* the times of the last RPM_QUOTA + 1 returns
LastReturns(times) ==
    IF Len(times) > RPM_QUOTA + 1
    THEN SubSeq(times, Len(times) - RPM_QUOTA, Len(times)) ELSE times

InitSession ==
    /\ raw_ins = NoInstruction
    /\ algorithm_seq = PyNone
    /\ program_version = PyNone
    /\ token = <<>>
    /\ node = NoNode
    /\ path = <<>>
    /\ current_dependencies = PyNone
    /\ stack = <<>>
    /\ state = NoState
    /\ now = 0
    /\ returned = <<>>
    /\ op = "none"
    /\ result = NoResult
    /\ pc = "ready"

\* time passes between two calls
Tick ==
    /\ \E gap \in Gaps :
            /\ now + gap <= MaxTime
            /\ now' = now + gap
    /\ op' = "tick"
    /\ UNCHANGED <<raw_ins, algorithm_seq, program_version, token, node, path,
                   current_dependencies, result, pc, stack, state, returned>>

\* rate_limit_callback(callback_context, llm_request): an empty part text
\* becomes a blank, the session state is updated, the call sleeps if it has to
\* and returns; result keeps the state and the clock the call found
RateLimitCallback ==
    /\ now + rate_limit_callback(state, now).delay <= MaxTime
    /\ \E text \in PartTexts : token' = IF text = <<>> THEN <<" ">> ELSE text
    /\ state' = rate_limit_callback(state, now).state
    /\ now' = now + rate_limit_callback(state, now).delay
    /\ returned' = LastReturns(Append(returned, now'))
    /\ result' = [raised |-> FALSE, err |-> "", value |-> PyNone,
                  before |-> state, now |-> now]
    /\ op' = "rate_limit_callback"
    /\ UNCHANGED <<raw_ins, algorithm_seq, program_version, node, path,
                   current_dependencies, pc, stack>>

NextSession == Tick \/ RateLimitCallback

SpecSession == InitSession /\ [][NextSession]_vars

\* C28: at most RPM_QUOTA calls return within any window of RATE_LIMIT_SECS
\* seconds: of any RPM_QUOTA + 1 calls in a row, the last returns at least
\* RATE_LIMIT_SECS seconds after the first.
C28_QuotaPerWindow ==
    Len(returned) > RPM_QUOTA =>
        returned[Len(returned)] - returned[Len(returned) - RPM_QUOTA] >= RATE_LIMIT_SECS

Called == op = "rate_limit_callback"

\* C29: after every call the session state holds timer_start and a
\* request_count between 1 and RPM_QUOTA; the call adds exactly 1 to the count
\* and leaves timer_start alone, except that the first call and the call that
\* would take the count above RPM_QUOTA set the count to 1 and timer_start to
\* the time of the call.
C29_CountInQuota ==
    Called =>
        /\ DOMAIN state = {"timer_start", "request_count"}
        /\ state.request_count \in 1..RPM_QUOTA
        /\ IF "timer_start" \notin DOMAIN result.before
              \/ result.before.request_count + 1 > RPM_QUOTA
           THEN state = [timer_start |-> result.now, request_count |-> 1]
           ELSE state = [timer_start |-> result.before.timer_start,
                         request_count |-> result.before.request_count + 1]

\* C29 witness: the call that would have made the count RPM_QUOTA + 1 has reset
\* the counter, after a call that only added 1
C29_Witness ==
    /\ Called
    /\ "timer_start" \in DOMAIN result.before
    /\ result.before.request_count = RPM_QUOTA
    /\ state.request_count = 1
    /\ result.now > 0

\* ------------------------------------------------------- lexer losslessness
\* blanks, a word character and delimiters of one and two characters
BlankAlphabet == {" ", "A", "|", "=", ">"}

BlankTexts == UNION {[1..n -> BlankAlphabet] : n \in 0..MaxLexLen}

InitBlank ==
    /\ raw_ins \in {Record(1, PyNone, t, PyNone, PyNone) : t \in BlankTexts}
    /\ token = <<>>
    /\ node = NoNode
    /\ algorithm_seq = PyNone
    /\ program_version = PyNone
    /\ path = <<>>
    /\ current_dependencies = PyNone
    /\ stack = <<>>
    /\ state = NoState
    /\ now = 0
    /\ returned = <<>>
    /\ op = "none"
    /\ result = NoResult
    /\ pc = "ready"

\* tokenize(raw) on a text with blanks in it
SpecBlank == InitBlank /\ [][NextLex]_vars

\* the segments between the delimiters of raw: the odd places of the split
Segments(raw) ==
    LET all == re_split(raw, 1, <<>>)
    IN [k \in 1..((Len(all) + 1) \div 2) |-> all[2 * k - 1]]

NoBlankSegment(raw) ==
    \A k \in 1..Len(Segments(raw)) :
        Segments(raw)[k] = <<>> \/ ~isspace(Segments(raw)[k])

\* C30: tokenize never emits an empty or whitespace-only token, and for every
\* input that has no whitespace-only segment between delimiters the token
\* values, concatenated in order, are the input text exactly.
C30_Lossless ==
    LexDone =>
        /\ \A k \in 1..Len(result.nodes) :
                /\ result.nodes[k].value # <<>>
                /\ ~isspace(result.nodes[k].value)
        /\ NoBlankSegment(raw_ins.ins) =>
                Flatten(TokenValues(result.nodes)) = raw_ins.ins

\* C30 witness: a text with blanks inside its words and around a delimiter, no
\* segment of it blank, was cut into three tokens
C30_Witness ==
    /\ LexDone
    /\ Contains(raw_ins.ins, " ")
    /\ NoBlankSegment(raw_ins.ins)
    /\ Len(result.nodes) = 3
    /\ result.nodes[2].type = "OP"
    /\ \E k \in {1, 3} : Contains(result.nodes[k].value, " ")

====
